---------------------------- MODULE Spec2Model ----------------------------
(***************************************************************************)
(* A model of the ore-cli batch miner (src/src/miner_v2.rs):               *)
(*                                                                         *)
(*   SpecHash    MinerV2::find_next_hash_par, the parallel nonce search,   *)
(*               and MinerV2::validate_hash                                *)
(*   SpecEngine  MinerV2::send_and_confirm_transaction, the race of the    *)
(*               broadcaster against the confirmation poller               *)
(*   SpecPipe    MinerV2::mine, the three pipeline tasks and the scan      *)
(*                                                                         *)
(* The three state machines share one set of variables; each              *)
(* specification leaves the variables of the other two untouched.          *)
(***************************************************************************)
EXTENDS Integers, Sequences, FiniteSets, TLC

(***************************************************************************)
(* Bounds of the model.  Widths are scaled down: a nonce has NonceBits     *)
(* bits instead of 64, a digest HashBits bits instead of 256, and the      *)
(* stop flag is read every FlagCheckEvery nonces instead of every 10_000.  *)
(* The three queues of mine hold QUEUE_CAPACITY messages instead of 100,   *)
(* so that a handful of wallets fills them.                                *)
(***************************************************************************)
MaxThreads == 2
NonceBits == 3
HashBits == 3
MaxChallenge == 1
FlagCheckEvery == 4
NumSigners == 2
MaxHeight == 2
MaxInFlight == 2
NumWallets == 5
MaxBatchArg == 6
MaxFee == 1
MaxBuilt == 2
MaxSecs == 1
AmountBits == 6
QUEUE_CAPACITY == 1
MaxAttempts == 2
MaxSims == 6

U64_MAX == (2 ^ NonceBits) - 1
HashSpace == 2 ^ HashBits
Digests == 0 .. (HashSpace - 1)
Signers == 1 .. NumSigners
Workers == 0 .. (MaxThreads - 1)

Min(a, b) == IF a <= b THEN a ELSE b

VARIABLES
    \* ---- find_next_hash_par ----
    threads,         \* the thread count argument
    hash,            \* the challenge hash argument
    difficulty,      \* the difficulty argument
    signer,          \* the wallet whose public key is hashed
    found_solution,  \* the AtomicBool shared by the workers
    solution,        \* the Mutex<(KeccakHash, u64)> cell
    wpc,             \* worker -> "loop" | "write" | "done" | "panicked" | "unused"
    wnonce,          \* worker -> its nonce
    wn,              \* worker -> n, its starting nonce
    wsteps,          \* worker -> hash iterations made since found_solution was set
    hpc,             \* "running" | "returned" | "panicked"
    hret,            \* the pair find_next_hash_par returned
    written          \* history: the pairs the workers stored in the solution cell

VARIABLES
    \* ---- send_and_confirm_transaction ----
    last_valid_blockheight,  \* the expiry height argument
    epc,                 \* the caller: "racing" | "returned" | "panicked"
    eres,                \* the Result the call returned
    tx_result_chan,      \* the (tx_result_sender, tx_result_receiver) channel
    sig_checks_chan,     \* the (sig_checks_sender, sig_checks_receiver) channel
    ppc,                 \* confirmation task: "recv" | "statuses" | "height" | "sleep"
                         \*   | "done" | "aborted" | "panicked"
    sigs,                \* the confirmation task's Vec<Signature>
    bpc,                 \* sender task: "spawn" | "sleep" | "aborted"
    sub,                 \* submission tasks: how many are spawned and not yet run,
                         \*   awaiting the RPC answer, holding a signature to report
    blockheight,         \* the network's block height
    net_status,          \* the network's status of the transaction
    submitted,           \* some submission call has reached the network
    \* history of the race
    results_written,     \* results sent on tx_result_chan so far
    last_statuses,       \* the last answer the poller got from get_signature_statuses
    last_height,         \* the last answer it got from get_block_height (-1: none)
    rpc_flaky,           \* an RPC of the poller failed or hid the transaction's status
    n_failed,            \* submissions answered Err so far (counted up to 2)
    late_send            \* a submission call was issued after the call returned

VARIABLES
    \* ---- mine ----
    batch_size,          \* the batch_size argument
    priority_fee,        \* the priority_fee argument
    horizon,             \* the number of transactions the orchestrator is followed for
    dir_left,            \* directory entries the scan has not read yet
    scanned,             \* history: the wallet strings the scan has enqueued
    unreadable,          \* history: the entries whose keypair file it could not read
    wallet_queue,        \* channel of WalletQueueMessage
    tx_queue,            \* channel of TransactionQueueMessage
    tx_results_queue,    \* channel of TransactionResultMessage
    proof_chain,         \* keypair -> the hash of its proof account on chain
    registered,          \* the keypairs that have a proof account on chain
    bus_chain,           \* bus 0 on chain: whether a read of it succeeds now, and
                         \*   its rewards
    opc,                 \* orchestrator: "recv" | "register" | "reg_loop" | "proof"
                         \*   | "hash" | "join" | "bus" | "send" | "panicked"
    wallet_batch,        \* its wallet_batch
    keys_bytes_with_hashes,  \* its (wallet, next_hash, nonce) triples
    o_treasury,          \* its latest treasury snapshot
    o_proof,             \* the proof hash it read for the current wallet
    searches,            \* the find_next_hash_par searches it spawned that are
                         \*   still running, each with the arguments moved into it
    o_bus,               \* the bus find_next_bus_id returned
    o_passed_over,       \* history: the rewards of the last bus the selection read
                         \*   and did not return, -1 when there is none
    consumed,            \* wallet messages it has received so far
    built,               \* transactions it has built so far
    dpc,                 \* dispatcher: "recv" | "blockhash" | "engine" | "emit"
                         \*   | "panicked"
    d_mssg,              \* the TransactionQueueMessage it holds
    d_tx,                \* the transaction it decoded and signed
    d_last_valid,        \* the last_valid_blockheight it fetched
    d_engine,            \* what send_and_confirm_transaction returned to it
    d_result,            \* the TransactionResultMessage it is about to send
    d_consumed,          \* transaction messages it has received so far
    d_emitted,           \* result messages it has sent so far
    d_ok_emitted,        \* result messages with failed = false among them
    rtpc,                \* router: "recv" | "requeue"
    r_left,              \* wallets of the result it still has to re-queue
    tx_times,            \* its statistics
    hash_times,
    total_times

VARIABLES
    \* ---- register ----
    gpc,                 \* the call: "idle" | "check" | "build" | "simulate" | "engine"
                         \*   | "returned" | "panicked"
    g_signer,            \* the keypair it registers
    g_account,           \* whether the proof account of g_signer exists on chain
    g_had_account,       \* history: whether it existed when register was called
    g_height,            \* the network's block height
    g_tx,                \* the registration transaction of this pass
    g_last_valid,        \* the last_valid_blockheight fetched with its blockhash
    g_attempts,          \* history: transactions handed to
                         \*   send_and_confirm_transaction, counted up to MaxAttempts
    g_result             \* what send_and_confirm_transaction answered last:
                         \*   "none" | "ok" | "err"

VARIABLES
    \* ---- send_and_confirm ----
    scpc,                \* the call: "idle" | "balance" | "blockhash" | "simulate"
                         \*   | "sign" | "submit" | "returned" | "panicked"
    sc_signer,           \* its arguments
    sc_ixs,
    sc_dynamic_cus,
    sc_priority_fee,
    sc_tx,               \* tx
    sim_attempts,        \* sim_attempts
    sc_sims,             \* history: simulate_transaction_with_config calls made
    sc_signed,           \* history: the transaction was signed for submission
    sc_landed,           \* the status the cluster holds for the submitted
                         \*   transaction: "none" | "ok" | "err"
    sc_chan,             \* what the confirmation task sent on the result
                         \*   channel: "none" | "ok" | "expired"
    sc_ret               \* the Result the call returned

hashVars == <<threads, hash, difficulty, signer, found_solution, solution,
              wpc, wnonce, wn, wsteps, hpc, hret, written>>

netVars == <<blockheight, net_status, submitted>>
engHist == <<results_written, last_statuses, last_height, rpc_flaky, n_failed,
            late_send>>
engVars == <<last_valid_blockheight, epc, eres, tx_result_chan, sig_checks_chan,
             ppc, sigs, bpc, sub, netVars, engHist>>

cfgVars == <<batch_size, priority_fee, horizon>>
scanVars == <<dir_left, scanned, unreadable>>
queueVars == <<scanVars, wallet_queue, tx_queue, tx_results_queue>>
chainVars == <<proof_chain, registered, bus_chain>>
orchVars == <<opc, wallet_batch, keys_bytes_with_hashes, o_treasury, o_proof, o_bus, o_passed_over,
              searches, consumed, built>>
dispVars == <<dpc, d_mssg, d_tx, d_last_valid, d_engine, d_result, d_consumed,
              d_emitted, d_ok_emitted>>
routerVars == <<rtpc, r_left, tx_times, hash_times, total_times>>
pipeVars == <<cfgVars, queueVars, chainVars, orchVars, dispVars, routerVars>>

regVars == <<gpc, g_signer, g_account, g_had_account, g_height, g_tx, g_last_valid,
             g_attempts, g_result>>

helperVars == <<scpc, sc_signer, sc_ixs, sc_dynamic_cus, sc_priority_fee, sc_tx,
                sim_attempts, sc_sims, sc_signed, sc_landed, sc_chan, sc_ret>>

vars == <<hashVars, engVars, pipeVars, regVars, helperVars>>

\* What the actions of one state machine leave alone.
notHash == <<engVars, pipeVars, regVars, helperVars>>
notEngine == <<hashVars, pipeVars, regVars, helperVars>>
notPipe == <<hashVars, engVars, regVars, helperVars>>
notRegister == <<hashVars, engVars, pipeVars, helperVars>>
notHelper == <<hashVars, engVars, pipeVars, regVars>>

(***************************************************************************)
(* Keys and hashing.                                                       *)
(***************************************************************************)
\* Keypair::pubkey: the public key of a wallet, a value distinct from the
\* secret the wallet string carries.
pubkey(w) == 2 * w + 1

\* hashv(&[hash, pubkey, nonce.to_le_bytes()]): a deterministic digest of the
\* three inputs (a stand-in for keccak: not injective, not onto, not monotone
\* in nonce and without a period in it).
hashv(h, pk, nonce) == ((nonce * (nonce + 1)) \div 4 + 3 * h + pk) % HashSpace

\* KeccakHash::le, the byte-wise (big-endian) order on digests.
HashLe(a, b) == a <= b

\* u64 saturating_mul.
saturating_mul(a, b) == Min(a * b, U64_MAX)

\* Every worker starting at the width of one partition.
StartNonceUnscaled(t, i) == U64_MAX \div t

\* The first nonce of worker i: u64::MAX.saturating_div(threads).saturating_mul(i).
StartNonce(t, i) == saturating_mul(U64_MAX \div t, i)

\* The initial content of the solution cell.
EmptySolution == [hash |-> 0, nonce |-> 0]

\* MinerV2::validate_hash.
validate_hash(h, current_hash, signer_pk, nonce, diff) ==
    LET hash_ == hashv(current_hash, signer_pk, nonce)
    IN  IF h # hash_ THEN FALSE
        ELSE IF ~HashLe(h, diff) THEN FALSE
        ELSE TRUE

(***************************************************************************)
(* find_next_hash_par                                                      *)
(***************************************************************************)
HashInit ==
    /\ threads \in 0 .. MaxThreads
    /\ hash \in 0 .. MaxChallenge
    /\ difficulty \in Digests
    /\ signer \in Signers
    /\ found_solution = FALSE
    /\ solution = EmptySolution
    /\ wpc = [i \in Workers |-> IF i < threads THEN "loop" ELSE "unused"]
    /\ wn = [i \in Workers |-> IF i < threads THEN StartNonce(threads, i) ELSE 0]
    /\ wnonce = wn
    /\ wsteps = [i \in Workers |-> 0]
    /\ hpc = "running"
    /\ hret = EmptySolution
    /\ written = {}

HashIdle ==
    /\ threads = 0 /\ hash = 0 /\ difficulty = 0 /\ signer = 1
    /\ found_solution = FALSE /\ solution = EmptySolution
    /\ wpc = [i \in Workers |-> "unused"]
    /\ wn = [i \in Workers |-> 0]
    /\ wnonce = [i \in Workers |-> 0]
    /\ wsteps = [i \in Workers |-> 0]
    /\ hpc = "idle" /\ hret = EmptySolution /\ written = {}

\* A worker that looks at the flag every other period only.
StopCheckEveryOther(nonce, flag) == (nonce % (2 * FlagCheckEvery) = 0) /\ flag

\* A worker that never looks at the flag.
StopCheckNever(nonce, flag) == FALSE

\* The stop-flag test at the top of an iteration.
StopCheck(nonce, flag) == (nonce % FlagCheckEvery = 0) /\ flag

\* One iteration of a worker's loop that does not overflow the nonce.
WorkerIterate(i) ==
    /\ hpc = "running"
    /\ wpc[i] = "loop"
    /\ LET next_hash == hashv(hash, pubkey(signer), wnonce[i])
       IN  /\ wsteps' = [wsteps EXCEPT ![i] = IF found_solution THEN @ + 1 ELSE @]
           /\ IF StopCheck(wnonce[i], found_solution)
              THEN /\ wpc' = [wpc EXCEPT ![i] = "done"]
                   /\ UNCHANGED <<wnonce, found_solution>>
              ELSE IF HashLe(next_hash, difficulty)
              THEN /\ found_solution' = TRUE
                   /\ wpc' = [wpc EXCEPT ![i] = "write"]
                   /\ UNCHANGED wnonce
              ELSE /\ wnonce[i] < U64_MAX
                   /\ wnonce' = [wnonce EXCEPT ![i] = @ + 1]
                   /\ UNCHANGED <<wpc, found_solution>>
    /\ UNCHANGED <<notHash, threads, hash, difficulty, signer, solution, wn, hpc, hret,
                   written>>

\* nonce += 1 at u64::MAX: the addition wraps to 0 in a build without
\* overflow checks and panics the worker in a build with them.
WorkerOverflow(i) ==
    /\ hpc = "running"
    /\ wpc[i] = "loop"
    /\ wnonce[i] = U64_MAX
    /\ ~StopCheck(wnonce[i], found_solution)
    /\ ~HashLe(hashv(hash, pubkey(signer), wnonce[i]), difficulty)
    /\ wsteps' = [wsteps EXCEPT ![i] = IF found_solution THEN @ + 1 ELSE @]
    /\ \/ /\ wnonce' = [wnonce EXCEPT ![i] = 0]
          /\ UNCHANGED wpc
       \/ /\ wpc' = [wpc EXCEPT ![i] = "panicked"]
          /\ UNCHANGED wnonce
    /\ UNCHANGED <<notHash, threads, hash, difficulty, signer, found_solution, solution,
                   wn, hpc, hret, written>>

\* What a worker stores in the solution cell under the lock.
FoundPair(i) == [hash |-> hashv(hash, pubkey(signer), wnonce[i]), nonce |-> wnonce[i]]

\* *w_solution = (next_hash, nonce); return
WorkerWrite(i) ==
    /\ hpc = "running"
    /\ wpc[i] = "write"
    /\ solution' = FoundPair(i)
    /\ written' = written \cup {FoundPair(i)}
    /\ wpc' = [wpc EXCEPT ![i] = "done"]
    /\ UNCHANGED <<notHash, threads, hash, difficulty, signer, found_solution, wnonce, wn,
                   wsteps, hpc, hret>>

\* thread_handle.join().unwrap() over every handle, then *r_solution.
JoinAll ==
    /\ hpc = "running"
    /\ \A i \in Workers : wpc[i] \in {"done", "panicked", "unused"}
    /\ IF \E i \in Workers : wpc[i] = "panicked"
       THEN /\ hpc' = "panicked"
            /\ UNCHANGED hret
       ELSE /\ hpc' = "returned"
            /\ hret' = solution
    /\ UNCHANGED <<notHash, threads, hash, difficulty, signer, found_solution, solution,
                   wpc, wnonce, wn, wsteps, written>>

HashNext ==
    \/ \E i \in Workers : WorkerIterate(i)
    \/ \E i \in Workers : WorkerOverflow(i)
    \/ \E i \in Workers : WorkerWrite(i)
    \/ JoinAll

(***************************************************************************)
(* send_and_confirm_transaction                                            *)
(***************************************************************************)
\* The signature of the transaction being sent: every submission of it is
\* acknowledged with this one signature.
TxSig == "sig"

\* mpsc::channel(100), both channels of the race.
CHANNEL_CAPACITY == 100

Ok(v) == [ok |-> TRUE, val |-> v]
Err(e) == [ok |-> FALSE, val |-> e]
NoResult == [ok |-> FALSE, val |-> "none"]
TransactionFailed == Err("Transaction Failed.")
BlockheightExceeded == Err("Last valid blockheight exceeded!")

\* A TransactionStatus as the poller reads it: confirmation_status and status.
\* "absent" is a None entry, "unknown" an entry without confirmation_status.
NotLanded == [level |-> "absent", ok |-> TRUE]
LandedStatuses ==
    [level : {"processed", "confirmed", "finalized"}, ok : BOOLEAN]
NextLevel(l) == IF l = "processed" THEN "confirmed" ELSE "finalized"

\* A match whose Processed arm ends the race as well.
IsLandedOrProcessed(level) == level \in {"processed", "confirmed", "finalized"}

\* The match on current_commitment: Confirmed | Finalized are the arms that
\* end the race, Processed does nothing.
IsLanded(level) == level \in {"confirmed", "finalized"}

\* sigs.push(new_sig) without the is_new test.
PushAlways(ss, new_sig) == Append(ss, new_sig)

\* if is_new { sigs.push(new_sig) }
PushIfNew(ss, new_sig) ==
    IF \E k \in 1 .. Len(ss) : ss[k] = new_sig THEN ss ELSE Append(ss, new_sig)

\* The index of the first entry of a status answer that ends the race, 0 if none.
FirstLanded(statuses) ==
    IF \E k \in 1 .. Len(statuses) : IsLanded(statuses[k].level)
    THEN CHOOSE k \in 1 .. Len(statuses) :
            /\ IsLanded(statuses[k].level)
            /\ \A j \in 1 .. (k - 1) : ~IsLanded(statuses[j].level)
    ELSE 0

\* The answers get_signature_statuses can give for the signatures asked:
\* per signature the network's status, or nothing (a node that has not seen it),
\* or a status without a confirmation level.
StatusAnswers(ss) ==
    [1 .. Len(ss) -> {net_status, NotLanded, [level |-> "unknown", ok |-> net_status.ok]}]

\* A poller that goes on with its iteration after it sent a result.
FallThroughAfterSend(next) == next

\* `return;` after a result was sent: the task is over.
ReturnAfterSend(next) == "done"

EngineInit ==
    /\ last_valid_blockheight \in 0 .. (MaxHeight - 1)
    /\ epc = "racing"
    /\ eres = NoResult
    /\ tx_result_chan = <<>>
    /\ sig_checks_chan = <<>>
    /\ ppc = "recv"
    /\ sigs = <<>>
    /\ bpc = "spawn"
    /\ sub = [spawned |-> 0, sending |-> 0, acked |-> 0]
    /\ blockheight = 0
    /\ net_status = NotLanded
    /\ submitted = FALSE
    /\ results_written = 0
    /\ last_statuses = <<>>
    /\ last_height = -1
    /\ rpc_flaky = FALSE
    /\ n_failed = 0
    /\ late_send = FALSE

EngineIdle ==
    /\ last_valid_blockheight = 0
    /\ epc = "idle"
    /\ eres = NoResult
    /\ tx_result_chan = <<>>
    /\ sig_checks_chan = <<>>
    /\ ppc = "idle"
    /\ sigs = <<>>
    /\ bpc = "idle"
    /\ sub = [spawned |-> 0, sending |-> 0, acked |-> 0]
    /\ blockheight = 0
    /\ net_status = NotLanded
    /\ submitted = FALSE
    /\ results_written = 0
    /\ last_statuses = <<>>
    /\ last_height = -1
    /\ rpc_flaky = FALSE
    /\ n_failed = 0
    /\ late_send = FALSE

engCore == <<last_valid_blockheight, epc, eres>>

\* ---- the confirmation checks task ----
\* sig_checks_receiver.recv().await: waits for a message.
PollRecv ==
    /\ ppc = "recv"
    /\ sig_checks_chan # <<>>
    /\ sigs' = PushIfNew(sigs, Head(sig_checks_chan))
    /\ sig_checks_chan' = Tail(sig_checks_chan)
    /\ ppc' = "statuses"
    /\ UNCHANGED <<notEngine, engCore, tx_result_chan, bpc, sub, netVars, engHist>>

\* A poller that looks at the block height first and takes a landed status
\* only while the blockhash is still valid.
StatusDecidesUnlessExpired(k, height, last_valid) == k # 0 /\ height <= last_valid

\* The loop over signature_statuses.value comes before get_block_height in
\* the iteration: a landed entry (index k, 0 if none) ends the race whatever
\* the height is.
StatusDecides(k, height, last_valid) == k # 0

\* client.get_signature_statuses(&sigs) answered Ok.
PollStatuses ==
    /\ ppc = "statuses"
    /\ \E answer \in StatusAnswers(sigs) :
        LET k == FirstLanded(answer)
        IN  /\ last_statuses' = answer
            /\ rpc_flaky' = (rpc_flaky \/ \E j \in 1 .. Len(answer) : answer[j] # net_status)
            /\ IF ~StatusDecides(k, blockheight, last_valid_blockheight)
               THEN /\ ppc' = "height"
                    /\ UNCHANGED <<tx_result_chan, results_written>>
               ELSE /\ Len(tx_result_chan) < CHANNEL_CAPACITY
                    /\ tx_result_chan' =
                          Append(tx_result_chan,
                                 IF answer[k].ok THEN Ok(sigs[1]) ELSE TransactionFailed)
                    /\ results_written' = results_written + 1
                    /\ ppc' = ReturnAfterSend("height")
    /\ UNCHANGED <<notEngine, engCore, sig_checks_chan, sigs, bpc, sub, netVars, last_height,
                   n_failed, late_send>>

\* client.get_signature_statuses(&sigs) answered Err: printed, nothing else.
PollStatusesErr ==
    /\ ppc = "statuses"
    /\ last_statuses' = <<>>
    /\ rpc_flaky' = TRUE
    /\ ppc' = "height"
    /\ UNCHANGED <<notEngine, engCore, tx_result_chan, sig_checks_chan, sigs, bpc, sub, netVars,
                   results_written, last_height, n_failed, late_send>>

\* client.get_block_height().await.unwrap() answered Ok.
PollHeight ==
    /\ ppc = "height"
    /\ last_height' = blockheight
    /\ IF blockheight > last_valid_blockheight
       THEN /\ Len(tx_result_chan) < CHANNEL_CAPACITY
            /\ tx_result_chan' = Append(tx_result_chan, BlockheightExceeded)
            /\ results_written' = results_written + 1
            /\ ppc' = ReturnAfterSend("sleep")
       ELSE /\ ppc' = "sleep"
            /\ UNCHANGED <<tx_result_chan, results_written>>
    /\ UNCHANGED <<notEngine, engCore, sig_checks_chan, sigs, bpc, sub, netVars, last_statuses,
                   rpc_flaky, n_failed, late_send>>

\* client.get_block_height().await.unwrap() answered Err: the task panics.
PollHeightPanic ==
    /\ ppc = "height"
    /\ ppc' = "panicked"
    /\ rpc_flaky' = TRUE
    /\ UNCHANGED <<notEngine, engCore, tx_result_chan, sig_checks_chan, sigs, bpc, sub, netVars,
                   results_written, last_statuses, last_height, n_failed, late_send>>

\* sleep(Duration::from_millis(500)).await
PollSleep ==
    /\ ppc = "sleep"
    /\ ppc' = "recv"
    /\ UNCHANGED <<notEngine, engCore, tx_result_chan, sig_checks_chan, sigs, bpc, sub, netVars,
                   engHist>>

\* ---- the sender task ----
\* tokio::spawn of one submission task, then the sleep starts.  MaxInFlight
\* bounds the submission tasks and unread signatures of the model.
BroadcastSpawn ==
    /\ bpc = "spawn"
    /\ sub.spawned + sub.sending + sub.acked + Len(sig_checks_chan) < MaxInFlight
    /\ sub' = [sub EXCEPT !.spawned = @ + 1]
    /\ bpc' = "sleep"
    /\ UNCHANGED <<notEngine, engCore, tx_result_chan, sig_checks_chan, ppc, sigs, netVars, engHist>>

\* sleep(Duration::from_millis(send_interval)).await is over.
BroadcastWake ==
    /\ bpc = "sleep"
    /\ bpc' = "spawn"
    /\ UNCHANGED <<notEngine, engCore, tx_result_chan, sig_checks_chan, ppc, sigs, sub, netVars,
                   engHist>>

\* ---- a submission task, detached from the sender task ----
\* client.send_transaction_with_config(&tx, send_cfg) is issued.
SubmitCall ==
    /\ sub.spawned > 0
    /\ sub' = [sub EXCEPT !.spawned = @ - 1, !.sending = @ + 1]
    /\ submitted' = TRUE
    /\ late_send' = (late_send \/ epc = "returned")
    /\ UNCHANGED <<notEngine, engCore, tx_result_chan, sig_checks_chan, ppc, sigs, bpc, blockheight,
                   net_status, results_written, last_statuses, last_height, rpc_flaky,
                   n_failed>>

\* The call answered Ok(sig).
SubmitOk ==
    /\ sub.sending > 0
    /\ sub' = [sub EXCEPT !.sending = @ - 1, !.acked = @ + 1]
    /\ UNCHANGED <<notEngine, engCore, tx_result_chan, sig_checks_chan, ppc, sigs, bpc, netVars,
                   engHist>>

\* A submission error that is reported as the outcome of the race.
SubmitErrEndsRace ==
    /\ sub.sending > 0
    /\ sub' = [sub EXCEPT !.sending = @ - 1]
    /\ n_failed' = Min(n_failed + 1, 2)
    /\ Len(tx_result_chan) < CHANNEL_CAPACITY
    /\ tx_result_chan' = Append(tx_result_chan, Err("Submission failed."))
    /\ UNCHANGED <<notEngine, engCore, sig_checks_chan, ppc, sigs, bpc,
                   netVars, results_written, last_statuses, last_height, rpc_flaky,
                   late_send>>

\* The call answered Err: the else branch is empty, the task ends.
SubmitErr ==
    /\ sub.sending > 0
    /\ sub' = [sub EXCEPT !.sending = @ - 1]
    /\ n_failed' = Min(n_failed + 1, 2)
    /\ UNCHANGED <<notEngine, engCore, tx_result_chan, sig_checks_chan, ppc, sigs, bpc,
                   netVars, results_written, last_statuses, last_height, rpc_flaky,
                   late_send>>

\* The receiving half of sig_checks lives as long as the confirmation task.
SigReceiverAlive == ppc \in {"recv", "statuses", "height", "sleep"}

\* sig_checks_sender.send(Ok(sig)).await: waits for room; Err when the receiver
\* is gone, and the task returns either way.
SubmitReport ==
    /\ sub.acked > 0
    /\ IF SigReceiverAlive
       THEN /\ Len(sig_checks_chan) < CHANNEL_CAPACITY
            /\ sig_checks_chan' = Append(sig_checks_chan, TxSig)
       ELSE UNCHANGED sig_checks_chan
    /\ sub' = [sub EXCEPT !.acked = @ - 1]
    /\ UNCHANGED <<notEngine, engCore, tx_result_chan, ppc, sigs, bpc, netVars, engHist>>

\* ---- the caller ----
\* tx_result_receiver.recv().await.unwrap() got a result; both handles are
\* aborted and the result is returned.
EngineReturn ==
    /\ epc = "racing"
    /\ tx_result_chan # <<>>
    /\ eres' = Head(tx_result_chan)
    /\ tx_result_chan' = Tail(tx_result_chan)
    /\ ppc' = IF ppc \in {"done", "panicked"} THEN ppc ELSE "aborted"
    /\ bpc' = "aborted"
    /\ epc' = "returned"
    /\ UNCHANGED <<notEngine, last_valid_blockheight, sig_checks_chan, sigs, sub, netVars, engHist>>

\* recv() gives None once the only sender is dropped with the channel empty:
\* the unwrap panics and neither handle is aborted.
EnginePanic ==
    /\ epc = "racing"
    /\ tx_result_chan = <<>>
    /\ ppc = "panicked"
    /\ epc' = "panicked"
    /\ UNCHANGED <<notEngine, last_valid_blockheight, eres, tx_result_chan, sig_checks_chan, ppc,
                   sigs, bpc, sub, netVars, engHist>>

\* ---- the network ----
HeightTick ==
    /\ epc # "idle"
    /\ blockheight < MaxHeight
    /\ blockheight' = blockheight + 1
    /\ UNCHANGED <<notEngine, engCore, tx_result_chan, sig_checks_chan, ppc, sigs, bpc, sub,
                   net_status, submitted, engHist>>

\* A submitted transaction is processed while its blockhash is valid, with an
\* ok or an error outcome.
TxLands ==
    /\ submitted
    /\ net_status = NotLanded
    /\ blockheight <= last_valid_blockheight
    /\ \E o \in BOOLEAN : net_status' = [level |-> "processed", ok |-> o]
    /\ UNCHANGED <<notEngine, engCore, tx_result_chan, sig_checks_chan, ppc, sigs, bpc, sub,
                   blockheight, submitted, engHist>>

\* A processed transaction becomes confirmed, a confirmed one finalized.
TxAdvances ==
    /\ net_status.level \in {"processed", "confirmed"}
    /\ net_status' = [net_status EXCEPT !.level = NextLevel(@)]
    /\ UNCHANGED <<notEngine, engCore, tx_result_chan, sig_checks_chan, ppc, sigs, bpc, sub,
                   blockheight, submitted, engHist>>

PollerStep ==
    PollRecv \/ PollStatuses \/ PollStatusesErr \/ PollHeight \/ PollHeightPanic \/ PollSleep
SenderStep == BroadcastSpawn \/ BroadcastWake
SubmitStep == SubmitCall \/ SubmitOk \/ SubmitErr \/ SubmitReport
NetworkStep == HeightTick \/ TxLands \/ TxAdvances

EngineNext ==
    \/ PollRecv \/ PollStatuses \/ PollStatusesErr \/ PollHeight \/ PollHeightPanic
    \/ PollSleep
    \/ BroadcastSpawn \/ BroadcastWake
    \/ SubmitCall \/ SubmitOk \/ SubmitErr \/ SubmitReport
    \/ EngineReturn \/ EnginePanic
    \/ HeightTick \/ TxLands \/ TxAdvances

(***************************************************************************)
(* mine: the wallet queue, the orchestrator, the dispatcher, the router    *)
(***************************************************************************)
\* The keypairs whose files are in the wallets directory.
Keypairs == 1 .. NumWallets

\* Keypair::to_base58_string / Keypair::from_base58_string: the string form
\* of a keypair that travels in the queue messages.
to_base58_string(kp) == 100 + kp
from_base58_string(s) == s - 100

\* The threads argument of mine: the default of the command line.
PipeThreads == 1

\* u64 arithmetic on token amounts saturates at AMOUNT_MAX.
AMOUNT_MAX == (2 ^ AmountBits) - 1

\* The treasury account: get_treasury reads difficulty and reward_rate.
TreasuryAccount == [difficulty |-> HashSpace \div 2, reward_rate |-> 1]

\* CU_LIMIT_MINE of crate::cu_limits.
CU_LIMIT_MINE == 3200

\* BUS_ADDRESSES[id]
BusAddress(id) == 900 + id

\* bus.rewards.ge(...) in its place would admit a bus at the threshold.
BusQualifiesAtThreshold(rewards, reward_rate) == rewards >= Min(reward_rate * 20, AMOUNT_MAX)

\* wrapping_mul in the place of saturating_mul: the threshold wraps around.
BusQualifiesWrapping(rewards, reward_rate) ==
    rewards > (reward_rate * 20) % (AMOUNT_MAX + 1)

\* bus.rewards.gt(&reward_rate.saturating_mul(20))
BusQualifies(rewards, reward_rate) == rewards > Min(reward_rate * 20, AMOUNT_MAX)

\* Reward rates a treasury snapshot can carry: none, the one of
\* TreasuryAccount, the largest whose twentyfold fits the amount type, the
\* first whose twentyfold saturates, and the largest amount.
RewardRatesSeen == {0, TreasuryAccount.reward_rate, AMOUNT_MAX \div 20,
                    AMOUNT_MAX \div 20 + 1, AMOUNT_MAX}

\* What bus 0 can hold: nothing, or rewards at the threshold of one of these
\* rates, or just above it.
BusRewardsSeen ==
    {0} \cup {Min(rate * 20, AMOUNT_MAX) : rate \in RewardRatesSeen}
        \cup {Min(rate * 20 + 1, AMOUNT_MAX) : rate \in RewardRatesSeen}

\* MinerV2::get_bus(rpc_client, id) at this moment: the account data of
\* BUS_ADDRESSES[id], or Err when the read fails.
get_bus(id) == IF bus_chain.readable
               THEN [ok |-> TRUE, bus |-> [id |-> id, rewards |-> bus_chain.rewards]]
               ELSE [ok |-> FALSE, bus |-> [id |-> id, rewards |-> 0]]

\* The first nonce at or after `start` (wrapping at u64::MAX) whose digest is
\* within the difficulty, as a set: empty when no nonce qualifies.
FirstSolution(kp, h, diff, start) ==
    LET at(d) == (start + d) % (U64_MAX + 1)
        good(d) == HashLe(hashv(h, pubkey(kp), at(d)), diff)
    IN  { [hash |-> hashv(h, pubkey(kp), at(d)), nonce |-> at(d)] :
            d \in { e \in 0 .. U64_MAX : good(e) /\ \A f \in 0 .. (e - 1) : ~good(f) } }

\* The pairs find_next_hash_par(signer, hash, difficulty, t) can return when
\* t >= 1: the first solution of one of its workers.
SolverOutcomes(kp, h, diff, t) ==
    UNION { FirstSolution(kp, h, diff, StartNonce(t, i)) : i \in 0 .. (t - 1) }

\* Elapsed whole seconds the engine's timer can report: none, or MaxSecs.
SecsSeen == {0, MaxSecs}

\* hash_timer.elapsed().unwrap().as_secs(): the searches of a batch run one
\* after another, and the model clocks each at one second.
HashSecs(kbwh) == Len(kbwh)

\* let batch_size = if batch_size > 5 { 5 } else { batch_size };
ClampBatchSize(b) == IF b > 5 THEN 5 ELSE b

\* A batch-full test that lets one more wallet in.
BatchIsOverfull(batch, b) == Len(batch) = b + 1

\* wallet_batch.len() as u64 == batch_size
BatchIsFull(batch, b) == Len(batch) = b

\* A compute-unit limit that is not scaled by the wallet count.
CuLimitIxUnscaled(wallet_count) == [kind |-> "cu_limit", units |-> CU_LIMIT_MINE]

\* ComputeBudgetInstruction::set_compute_unit_limit(CU_LIMIT_MINE * wallet_count as u32)
CuLimitIx(wallet_count) == [kind |-> "cu_limit", units |-> CU_LIMIT_MINE * wallet_count]

\* ComputeBudgetInstruction::set_compute_unit_price(priority_fee)
CuPriceIx(fee) == [kind |-> "cu_price", price |-> fee]

\* ore::instruction::mine(signer.pubkey(), BUS_ADDRESSES[bus.id], next_hash, nonce)
\* for one entry (key_bytes, next_hash, nonce) of keys_bytes_with_hashes.
MineIx(entry, bus) ==
    [kind |-> "mine", signer |-> pubkey(from_base58_string(entry.wallet)),
     bus |-> BusAddress(bus.id), hash |-> entry.hash, nonce |-> entry.nonce]

\* ixs with every mine instruction pushed twice.
BuildIxsDoubled(kbwh, fee, bus) ==
    <<CuLimitIx(Len(kbwh)), CuPriceIx(fee)>>
        \o [k \in 1 .. 2 * Len(kbwh) |-> MineIx(kbwh[(k + 1) \div 2], bus)]

\* ixs: the two budget instructions, then one mine instruction per entry.
BuildIxs(kbwh, fee, bus) ==
    <<CuLimitIx(Len(kbwh)), CuPriceIx(fee)>>
        \o [k \in 1 .. Len(kbwh) |-> MineIx(kbwh[k], bus)]

\* Transaction::new_with_payer(ixs, Some(&signer_1.pubkey())): no signature yet.
NewWithPayer(ixs, payer) == [ixs |-> ixs, payer |-> payer, signatures |-> <<>>,
                             blockhash |-> 0]

\* BASE64.encode(bincode::serialize(&tx)) and its inverse in the dispatcher.
EncodeTx(tx) == [base64 |-> tx]
DecodeTx(enc) == enc.base64

\* The TransactionQueueMessage of a finished batch.
BuildTqm(batch, kbwh, fee, bus, hash_time) ==
    [wallets |-> batch,
     encoded_unsigned_tx |->
        EncodeTx(NewWithPayer(BuildIxs(kbwh, fee, bus),
                              pubkey(from_base58_string(kbwh[1].wallet)))),
     hash_time_elapsed |-> hash_time]

\* Values a task holds before it has received a message.
NoTx == [ixs |-> <<>>, payer |-> 0, signatures |-> <<>>, blockhash |-> 0]
NoTqm == [wallets |-> <<>>, encoded_unsigned_tx |-> EncodeTx(NoTx), hash_time_elapsed |-> 0]
NoEngineResult == [ok |-> FALSE, val |-> "none", elapsed |-> 0]
NoTrm == [wallets |-> <<>>, sig |-> [text |-> "none", payer |-> 0, blockhash |-> 0],
          tx_time_elapsed |-> 0, hash_time_elapsed |-> 0,
          failed |-> FALSE]

PipeChainInit ==
    /\ proof_chain = [kp \in Keypairs |-> kp % (MaxChallenge + 1)]
    /\ registered = Keypairs \ {1}
    /\ bus_chain = [readable |-> TRUE, rewards |-> TreasuryAccount.reward_rate * 20 + 1]

OrchInit ==
    /\ opc = "recv"
    /\ wallet_batch = <<>>
    /\ keys_bytes_with_hashes = <<>>
    /\ o_treasury = TreasuryAccount
    /\ o_proof = 0
    /\ searches = {}
    /\ o_bus = [id |-> 0, rewards |-> 0]
    /\ o_passed_over = -1
    /\ consumed = 0
    /\ built = 0

\* A queue that never refuses a message.
HasRoomAlways(queue) == TRUE

\* mpsc::channel(100): Sender::send(..).await completes only when the queue
\* holds fewer messages than its capacity.
HasRoom(queue) == Len(queue) < QUEUE_CAPACITY

\* ---- the directory scan at the end of mine ----
\* read_keypair_file succeeded: the wallet is sent to the wallet queue, which
\* waits for room; Err (the orchestrator is gone) is logged.
ScanReadable ==
    /\ dir_left # <<>>
    /\ IF opc = "panicked"
       THEN UNCHANGED <<wallet_queue, scanned>>
       ELSE /\ HasRoom(wallet_queue)
            /\ wallet_queue' =
                  Append(wallet_queue, [wallet |-> to_base58_string(Head(dir_left))])
            /\ scanned' = scanned \cup {to_base58_string(Head(dir_left))}
    /\ dir_left' = Tail(dir_left)
    /\ UNCHANGED <<notPipe, cfgVars, unreadable, tx_queue, tx_results_queue, chainVars,
                   orchVars, dispVars, routerVars>>

\* read_keypair_file failed: the entry is logged and skipped.
ScanUnreadable ==
    /\ dir_left # <<>>
    /\ Len(dir_left) = NumWallets
    /\ dir_left' = Tail(dir_left)
    /\ unreadable' = unreadable \cup {Head(dir_left)}
    /\ UNCHANGED scanned
    /\ UNCHANGED <<notPipe, cfgVars, wallet_queue, tx_queue, tx_results_queue, chainVars,
                   orchVars, dispVars, routerVars>>

\* dir_reader.next_entry().await answered Err: the `if let Ok(Some(..))` falls
\* to its else arm and the loop breaks, as it does at the end of the
\* directory.
ScanNextEntryErr ==
    /\ dir_left # <<>>
    /\ dir_left' = <<>>
    /\ UNCHANGED <<scanned, unreadable>>
    /\ UNCHANGED <<notPipe, cfgVars, wallet_queue, tx_queue, tx_results_queue, chainVars,
                   orchVars, dispVars, routerVars>>

\* ---- the wallet queue reader task (the orchestrator) ----
orchLocal == <<keys_bytes_with_hashes, o_treasury, o_proof, o_bus, o_passed_over, searches, built>>

\* wallet_queue_reader.recv().await, the push, and the batch-full test; a full
\* batch starts with get_treasury, any other ends the iteration with the
\* 100 ms sleep.  The model follows the orchestrator up to its horizon-th
\* transaction and the wallets it collects after it.
OrchRecv ==
    /\ opc = "recv"
    /\ wallet_queue # <<>>
    /\ wallet_queue' = Tail(wallet_queue)
    /\ wallet_batch' = Append(wallet_batch, Head(wallet_queue).wallet)
    /\ BatchIsFull(wallet_batch', ClampBatchSize(batch_size)) => built < horizon
    /\ consumed' = consumed + 1
    /\ IF BatchIsFull(wallet_batch', ClampBatchSize(batch_size))
       THEN /\ opc' = "register"
            /\ o_treasury' = TreasuryAccount
            /\ keys_bytes_with_hashes' = <<>>
       ELSE /\ opc' = "recv"
            /\ UNCHANGED <<o_treasury, keys_bytes_with_hashes>>
    /\ UNCHANGED <<notPipe, cfgVars, scanVars, tx_queue, tx_results_queue, chainVars,
                   o_proof, o_bus, o_passed_over, searches, built, dispVars, routerVars>>

\* The wallet of the batch that is being registered and hashed.
CurrentWallet == wallet_batch[Len(keys_bytes_with_hashes) + 1]
CurrentKeypair == from_base58_string(CurrentWallet)

\* MinerV2::register, client.get_account(&proof_address).await.is_ok(): the
\* account exists and the read succeeded, so register returns early.
OrchRegistered ==
    /\ opc = "register"
    /\ CurrentKeypair \in registered
    /\ opc' = "proof"
    /\ UNCHANGED <<notPipe, cfgVars, queueVars, chainVars, wallet_batch, consumed,
                   orchLocal, dispVars, routerVars>>

\* get_account answered Err, because the account does not exist or because
\* the read failed: register enters its loop.
OrchRegisterNeeded ==
    /\ opc = "register"
    /\ opc' = "reg_loop"
    /\ UNCHANGED <<notPipe, cfgVars, queueVars, chainVars, wallet_batch, consumed,
                   orchLocal, dispVars, routerVars>>

\* One pass of the loop of register: a registration transaction is signed
\* with a fresh blockhash and driven through send_and_confirm_transaction.
\* Ok (the transaction was seen Confirmed, so the account exists by now)
\* ends the loop, Err repeats it.
OrchRegisterPass ==
    /\ opc = "reg_loop"
    /\ \/ /\ registered' = registered \cup {CurrentKeypair}
          /\ opc' = "proof"
       \/ UNCHANGED <<registered, opc>>
    /\ UNCHANGED <<notPipe, cfgVars, queueVars, proof_chain, bus_chain, wallet_batch,
                   consumed,
                   orchLocal, dispVars, routerVars>>

\* get_latest_blockhash_with_commitment(..).await.unwrap() in the loop of
\* register answered Err: the task panics.
OrchRegisterPanic ==
    /\ opc = "reg_loop"
    /\ opc' = "panicked"
    /\ UNCHANGED <<notPipe, cfgVars, queueVars, chainVars, wallet_batch, consumed,
                   orchLocal, dispVars, routerVars>>

\* get_proof(&rpc_client, authority): the hash field of the proof account of
\* the authority, as it is on chain at the moment of the call.
get_proof(kp) == proof_chain[kp]

\* An orchestrator that reads each proof once, when the program starts, and
\* takes the hash from that copy in every cycle.
OrchGetProofCached ==
    /\ opc = "proof"
    /\ o_proof' = CurrentKeypair % (MaxChallenge + 1)
    /\ opc' = "hash"
    /\ UNCHANGED <<notPipe, cfgVars, queueVars, chainVars, wallet_batch, consumed,
                   keys_bytes_with_hashes, o_treasury, o_bus, o_passed_over, searches, built, dispVars,
                   routerVars>>

\* let proof = get_proof(&rpc_client, signer.pubkey()).await
OrchGetProof ==
    /\ opc = "proof"
    /\ o_proof' = get_proof(CurrentKeypair)
    /\ opc' = "hash"
    /\ UNCHANGED <<notPipe, cfgVars, queueVars, chainVars, wallet_batch, consumed,
                   keys_bytes_with_hashes, o_treasury, o_bus, o_passed_over, searches, built, dispVars,
                   routerVars>>

\* The arguments moved into the closure of spawn_blocking: the wallet, and
\* proof.hash, treasury.difficulty and threads for find_next_hash_par.
SearchOf(wallet, proof, treasury, t) ==
    [wallet |-> wallet, hash |-> proof, difficulty |-> treasury.difficulty, threads |-> t]

\* tokio::task::spawn_blocking(..): the search starts on a blocking thread.
OrchSpawn ==
    /\ opc = "hash"
    /\ searches' = searches \cup {SearchOf(CurrentWallet, o_proof, o_treasury, PipeThreads)}
    /\ opc' = "join"
    /\ UNCHANGED <<notPipe, cfgVars, queueVars, chainVars, wallet_batch, consumed,
                   keys_bytes_with_hashes, o_treasury, o_proof, o_bus, o_passed_over, built, dispVars,
                   routerVars>>

\* An await that returns while the search it waited for is still running.
SearchesAfterJoinKept(running, search) == running

\* th.await returns when the blocking task has returned: that search is over.
SearchesAfterJoin(running, search) == running \ {search}

\* th.await.unwrap() hands over what the search returned and the triple
\* (wallet, next_hash, nonce) is pushed; after the last wallet, get_treasury
\* again.
OrchHash ==
    /\ opc = "join"
    /\ \E search \in {s \in searches : s.wallet = CurrentWallet} :
          /\ \E sol \in SolverOutcomes(from_base58_string(search.wallet), search.hash,
                                        search.difficulty, search.threads) :
                keys_bytes_with_hashes' =
                    Append(keys_bytes_with_hashes,
                           [wallet |-> search.wallet, hash |-> sol.hash,
                            nonce |-> sol.nonce])
          /\ searches' = SearchesAfterJoin(searches, search)
    /\ IF Len(keys_bytes_with_hashes') = Len(wallet_batch)
       THEN /\ opc' = "bus"
            /\ o_treasury' = TreasuryAccount
       ELSE /\ opc' = "register"
            /\ UNCHANGED o_treasury
    /\ UNCHANGED <<notPipe, cfgVars, queueVars, chainVars, wallet_batch, consumed,
                   o_proof, o_bus, o_passed_over, built, dispVars, routerVars>>

\* find_next_bus_id: one pass of its loop.  get_bus(0) answers Err, or a bus
\* that does not qualify, and the loop repeats; or a bus that qualifies.
OrchFindBus ==
    /\ opc = "bus"
    /\ LET bus_id == 0
           read == get_bus(bus_id)
       IN  IF read.ok /\ BusQualifies(read.bus.rewards, o_treasury.reward_rate)
           THEN /\ o_bus' = read.bus
                /\ UNCHANGED o_passed_over
                /\ opc' = "send"
           ELSE /\ o_passed_over' = IF read.ok THEN read.bus.rewards ELSE o_passed_over
                /\ UNCHANGED <<opc, o_bus>>
    /\ UNCHANGED <<notPipe, cfgVars, queueVars, chainVars, wallet_batch, consumed,
                   keys_bytes_with_hashes, o_treasury, o_proof, searches, built, dispVars,
                   routerVars>>

\* Bus 0 changes on chain (other miners claim from it, the program tops it
\* up) or the RPC node stops or resumes answering reads of it.
BusChanges ==
    /\ \E readable \in BOOLEAN, rewards \in BusRewardsSeen :
          /\ bus_chain' = [readable |-> readable,
                           rewards |-> IF readable THEN rewards ELSE bus_chain.rewards]
          /\ bus_chain' # bus_chain
    /\ UNCHANGED <<notPipe, cfgVars, queueVars, proof_chain, registered, orchVars,
                   dispVars, routerVars>>

\* The locals of one iteration of the orchestrator, dropped at its end.
OrchLocalsDropped ==
    /\ keys_bytes_with_hashes' = <<>>
    /\ o_proof' = 0
    /\ o_bus' = [id |-> 0, rewards |-> 0]
    /\ o_passed_over' = -1

\* An orchestrator that hands the first wallet of its batch back to the wallet
\* queue when the send fails, in the place of logging the Err only.
OrchSendRequeues ==
    /\ opc = "send"
    /\ LET tqm == BuildTqm(wallet_batch, keys_bytes_with_hashes, priority_fee, o_bus,
                           HashSecs(keys_bytes_with_hashes))
       IN  IF dpc = "panicked"
           THEN /\ wallet_queue' = IF HasRoom(wallet_queue)
                                   THEN Append(wallet_queue, [wallet |-> wallet_batch[1]])
                                   ELSE wallet_queue
                /\ UNCHANGED tx_queue
           ELSE /\ HasRoom(tx_queue)
                /\ tx_queue' = Append(tx_queue, tqm)
                /\ UNCHANGED wallet_queue
    /\ built' = built + 1
    /\ wallet_batch' = <<>>
    /\ OrchLocalsDropped
    /\ opc' = "recv"
    /\ UNCHANGED <<notPipe, cfgVars, scanVars, tx_results_queue, chainVars,
                   consumed, o_treasury, searches, dispVars, routerVars>>

\* The transaction is built and tx_queue_sender.send(tqm).await waits for room
\* in the queue; Err (the dispatcher is gone) is logged.  Either way
\* wallet_batch = vec![], and the iteration ends with the 100 ms sleep.
OrchSend ==
    /\ opc = "send"
    /\ LET tqm == BuildTqm(wallet_batch, keys_bytes_with_hashes, priority_fee, o_bus,
                           HashSecs(keys_bytes_with_hashes))
       IN  IF dpc = "panicked"
           THEN UNCHANGED tx_queue
           ELSE /\ HasRoom(tx_queue)
                /\ tx_queue' = Append(tx_queue, tqm)
    /\ built' = built + 1
    /\ wallet_batch' = <<>>
    /\ OrchLocalsDropped
    /\ opc' = "recv"
    /\ UNCHANGED <<notPipe, cfgVars, scanVars, wallet_queue, tx_results_queue, chainVars,
                   consumed, o_treasury, searches, dispVars, routerVars>>

\* ---- the tx queue processor task (the dispatcher) ----
DispatchInit ==
    /\ dpc = "recv"
    /\ d_mssg = NoTqm
    /\ d_tx = NoTx
    /\ d_last_valid = 0
    /\ d_engine = NoEngineResult
    /\ d_result = NoTrm
    /\ d_consumed = 0
    /\ d_emitted = 0
    /\ d_ok_emitted = 0

\* The locals of one iteration of the dispatcher.
dispLocal == <<d_mssg, d_tx, d_last_valid, d_engine, d_result>>

\* tx_queue_reader.recv().await
DispRecv ==
    /\ dpc = "recv"
    /\ tx_queue # <<>>
    /\ d_mssg' = Head(tx_queue)
    /\ tx_queue' = Tail(tx_queue)
    /\ d_consumed' = d_consumed + 1
    /\ dpc' = "blockhash"
    /\ UNCHANGED <<notPipe, cfgVars, scanVars, wallet_queue, tx_results_queue, chainVars,
                   orchVars, d_tx, d_last_valid, d_engine, d_result, d_emitted,
                   d_ok_emitted,
                   routerVars>>

\* A signing loop that stops after the first keypair of the message.
PartialSignFirst(tx, wallets, blockhash) ==
    [tx EXCEPT !.signatures = [k \in 1 .. Min(1, Len(wallets)) |->
                                   pubkey(from_base58_string(wallets[k]))],
               !.blockhash = blockhash]

\* tx.partial_sign(&[&keypair], hash) for every keypair of the message.
PartialSignAll(tx, wallets, blockhash) ==
    [tx EXCEPT !.signatures = [k \in 1 .. Len(wallets) |->
                                   pubkey(from_base58_string(wallets[k]))],
               !.blockhash = blockhash]

\* The blockhash of the chain at a height, and the last height it is valid at.
BlockhashAt(height) == 70 + height
LastValidAt(height) == height + 1

\* get_latest_blockhash_with_commitment answered Ok: decode and sign.
DispBlockhash ==
    /\ dpc = "blockhash"
    /\ d_tx' = PartialSignAll(DecodeTx(d_mssg.encoded_unsigned_tx), d_mssg.wallets,
                              BlockhashAt(blockheight))
    /\ d_last_valid' = LastValidAt(blockheight)
    /\ dpc' = "engine"
    /\ UNCHANGED <<notPipe, cfgVars, queueVars, chainVars, orchVars, d_mssg, d_engine,
                   d_result, d_consumed, d_emitted,
                   d_ok_emitted, routerVars>>

\* get_latest_blockhash_with_commitment(..).await.unwrap() answered Err.
DispBlockhashPanic ==
    /\ dpc = "blockhash"
    /\ dpc' = "panicked"
    /\ UNCHANGED <<notPipe, cfgVars, queueVars, chainVars, orchVars, dispLocal,
                   d_consumed, d_emitted,
                   d_ok_emitted, routerVars>>

\* The signature a signed transaction is known by.
SignatureOf(tx) == [payer |-> tx.payer, blockhash |-> tx.blockhash]

\* What send_and_confirm_transaction returns: Ok((sig, tx_time_elapsed)) or
\* Err(e).
EngineOk(sig, elapsed) == [ok |-> TRUE, val |-> sig, elapsed |-> elapsed]
EngineErr(e) == [ok |-> FALSE, val |-> e.val, elapsed |-> 0]

\* sig.to_string() and "failed".to_string(): the text in the sig field of a
\* result message.
sig_to_string(sig) == [text |-> "signature", payer |-> sig.payer,
                       blockhash |-> sig.blockhash]
FailedText == [text |-> "failed", payer |-> 0, blockhash |-> 0]

\* A result message that never raises the failed flag.
ResultMessageNeverFailed(mssg, result, elapsed) ==
    [wallets |-> mssg.wallets, sig |-> FailedText, tx_time_elapsed |-> elapsed,
     hash_time_elapsed |-> mssg.hash_time_elapsed, failed |-> FALSE]

\* The match on the result of send_and_confirm_transaction.
ResultMessage(mssg, result, elapsed) ==
    IF result.ok
    THEN [wallets |-> mssg.wallets, sig |-> sig_to_string(result.val),
          tx_time_elapsed |-> elapsed,
          hash_time_elapsed |-> mssg.hash_time_elapsed, failed |-> FALSE]
    ELSE [wallets |-> mssg.wallets, sig |-> FailedText, tx_time_elapsed |-> 0,
          hash_time_elapsed |-> mssg.hash_time_elapsed, failed |-> TRUE]

\* The proof accounts after a mine transaction was confirmed: each signer's
\* challenge becomes the hash it submitted.
ProofsAfterMine(proofs, mssg, tx) ==
    [kp \in DOMAIN proofs |->
        IF \E k \in 1 .. Len(mssg.wallets) : from_base58_string(mssg.wallets[k]) = kp
        THEN LET k == CHOOSE j \in 1 .. Len(mssg.wallets) :
                          from_base58_string(mssg.wallets[j]) = kp
             IN  tx.ixs[k + 2].hash
        ELSE proofs[kp]]

\* send_and_confirm_transaction returned: Ok with the signature and the
\* elapsed seconds, or one of its two failures; the match builds the result.
DispEngine ==
    /\ dpc = "engine"
    /\ \/ \E elapsed \in SecsSeen :
            /\ d_engine' = EngineOk(SignatureOf(d_tx), elapsed)
            /\ proof_chain' = ProofsAfterMine(proof_chain, d_mssg, d_tx)
       \/ \E e \in {TransactionFailed, BlockheightExceeded} :
            /\ d_engine' = EngineErr(e)
            /\ UNCHANGED proof_chain
    /\ d_result' = ResultMessage(d_mssg, d_engine', d_engine'.elapsed)
    /\ dpc' = "emit"
    /\ UNCHANGED <<notPipe, cfgVars, queueVars, registered, bus_chain, orchVars, d_mssg,
                   d_tx,
                   d_last_valid, d_consumed, d_emitted,
                   d_ok_emitted, routerVars>>

\* send_and_confirm_transaction panicked (its poller lost get_block_height).
DispEnginePanic ==
    /\ dpc = "engine"
    /\ dpc' = "panicked"
    /\ UNCHANGED <<notPipe, cfgVars, queueVars, chainVars, orchVars, dispLocal,
                   d_consumed, d_emitted,
                   d_ok_emitted, routerVars>>

\* The locals of one iteration of the dispatcher, dropped at its end.
DispLocalsDropped ==
    /\ d_mssg' = NoTqm
    /\ d_tx' = NoTx
    /\ d_last_valid' = 0
    /\ d_engine' = NoEngineResult
    /\ d_result' = NoTrm

\* tx_results_sender.send(..).await waits for room in the result queue; the
\* iteration ends with the 500 ms sleep and its locals are dropped.
DispEmit ==
    /\ dpc = "emit"
    /\ HasRoom(tx_results_queue)
    /\ tx_results_queue' = Append(tx_results_queue, d_result)
    /\ d_emitted' = d_emitted + 1
    /\ d_ok_emitted' = d_ok_emitted + (IF d_result.failed THEN 0 ELSE 1)
    /\ DispLocalsDropped
    /\ dpc' = "recv"
    /\ UNCHANGED <<notPipe, cfgVars, scanVars, wallet_queue, tx_queue, chainVars, orchVars,
                   d_consumed, routerVars>>

\* ---- the tx results task (the router) ----
RouterInit ==
    /\ rtpc = "recv"
    /\ r_left = <<>>
    /\ tx_times = <<>>
    /\ hash_times = <<>>
    /\ total_times = <<>>

\* A router that appends the times of every result it receives.
StatsRecordedAlways(mssg) == TRUE

\* if mssg.failed { .. } else { .. the three pushes .. }
StatsRecorded(mssg) == ~mssg.failed

\* tx_results_reader.recv().await and the statistics of a successful result.
RouterRecv ==
    /\ rtpc = "recv"
    /\ tx_results_queue # <<>>
    /\ LET mssg == Head(tx_results_queue)
       IN  /\ IF ~StatsRecorded(mssg)
              THEN UNCHANGED <<tx_times, hash_times, total_times>>
              ELSE /\ tx_times' = Append(tx_times, mssg.tx_time_elapsed)
                   /\ hash_times' = Append(hash_times, mssg.hash_time_elapsed)
                   /\ total_times' =
                        Append(total_times, mssg.tx_time_elapsed + mssg.hash_time_elapsed)
           /\ r_left' = mssg.wallets
           /\ rtpc' = IF mssg.wallets = <<>> THEN "recv" ELSE "requeue"
    /\ tx_results_queue' = Tail(tx_results_queue)
    /\ UNCHANGED <<notPipe, cfgVars, scanVars, wallet_queue, tx_queue, chainVars, orchVars,
                   dispVars>>

\* wallet_queue.send(w).await for the next wallet of the result: waits for
\* room; Err (the orchestrator is gone) is logged.  After the last wallet the
\* iteration ends with the 500 ms sleep.
RouterRequeue ==
    /\ rtpc = "requeue"
    /\ IF opc = "panicked"
       THEN UNCHANGED wallet_queue
       ELSE /\ HasRoom(wallet_queue)
            /\ wallet_queue' = Append(wallet_queue, [wallet |-> Head(r_left)])
    /\ r_left' = Tail(r_left)
    /\ rtpc' = IF Len(r_left) = 1 THEN "recv" ELSE "requeue"
    /\ UNCHANGED <<notPipe, cfgVars, scanVars, tx_queue, tx_results_queue, chainVars,
                   orchVars, dispVars, tx_times, hash_times, total_times>>

PipeInit ==
    /\ batch_size \in 0 .. MaxBatchArg
    /\ priority_fee \in {0, MaxFee}
    /\ horizon = MaxBuilt
    /\ dir_left = [k \in 1 .. NumWallets |-> k]
    /\ scanned = {} /\ unreadable = {}
    /\ wallet_queue = <<>>
    /\ tx_queue = <<>>
    /\ tx_results_queue = <<>>
    /\ PipeChainInit
    /\ OrchInit
    /\ DispatchInit
    /\ RouterInit

PipeNext ==
    \/ ScanReadable \/ ScanUnreadable \/ ScanNextEntryErr
    \/ OrchRecv \/ OrchRegistered \/ OrchRegisterNeeded \/ OrchRegisterPass
    \/ OrchRegisterPanic \/ OrchGetProof \/ OrchSpawn \/ OrchHash \/ OrchFindBus
    \/ OrchSend
    \/ DispRecv \/ DispBlockhash \/ DispBlockhashPanic \/ DispEngine \/ DispEnginePanic
    \/ DispEmit
    \/ RouterRecv \/ RouterRequeue

PipeIdle ==
    /\ batch_size = 0 /\ priority_fee = 0 /\ horizon = MaxBuilt
    /\ dir_left = <<>> /\ scanned = {} /\ unreadable = {} /\ wallet_queue = <<>> /\ tx_queue = <<>>
    /\ tx_results_queue = <<>>
    /\ PipeChainInit
    /\ OrchInit
    /\ DispatchInit
    /\ RouterInit

(***************************************************************************)
(* MinerV2::register, lines 824-908, for one keypair.                      *)
(***************************************************************************)
\* ore::instruction::register(signer.pubkey())
RegisterIx(kp) == [kind |-> "register", signer |-> pubkey(kp)]

\* tx.sign(&[&signer], hash)
Sign(tx, kp, blockhash) ==
    [tx EXCEPT !.signatures = <<pubkey(kp)>>, !.blockhash = blockhash]

RegisterIdle ==
    /\ gpc = "idle" /\ g_signer = 1
    /\ g_account = FALSE /\ g_had_account = FALSE
    /\ g_height = 0
    /\ g_tx = NoTx /\ g_last_valid = 0
    /\ g_attempts = 0 /\ g_result = "none"

\* register is called for a keypair whose proof account exists or not.
RegisterInit ==
    /\ gpc = "check"
    /\ g_signer \in Keypairs
    /\ g_account \in BOOLEAN
    /\ g_had_account = g_account
    /\ g_height = 0
    /\ g_tx = NoTx /\ g_last_valid = 0
    /\ g_attempts = 0 /\ g_result = "none"

\* client.get_account(&proof_address).await.is_ok(): the account exists and
\* the read succeeded; register returns early.
RegisterAccountRead ==
    /\ gpc = "check"
    /\ g_account
    /\ gpc' = "returned"
    /\ UNCHANGED <<notRegister, g_signer, g_account, g_had_account, g_height, g_tx,
                   g_last_valid, g_attempts, g_result>>

\* get_account answered Err: there is no such account, or the read failed.
RegisterAccountReadErr ==
    /\ gpc = "check"
    /\ gpc' = "build"
    /\ UNCHANGED <<notRegister, g_signer, g_account, g_had_account, g_height, g_tx,
                   g_last_valid, g_attempts, g_result>>

\* The head of the loop: the instruction, Transaction::new_with_payer, the
\* blockhash fetch answering Ok, and tx.sign.
RegisterBuild ==
    /\ gpc = "build"
    /\ g_tx' = Sign(NewWithPayer(<<RegisterIx(g_signer)>>, pubkey(g_signer)), g_signer,
                    BlockhashAt(g_height))
    /\ g_last_valid' = LastValidAt(g_height)
    /\ gpc' = "simulate"
    /\ UNCHANGED <<notRegister, g_signer, g_account, g_had_account, g_height, g_attempts,
                   g_result>>

\* get_latest_blockhash_with_commitment(..).await.unwrap() answered Err.
RegisterBuildPanic ==
    /\ gpc = "build"
    /\ gpc' = "panicked"
    /\ UNCHANGED <<notRegister, g_signer, g_account, g_had_account, g_height, g_tx,
                   g_last_valid, g_attempts, g_result>>

\* simulate_transaction_with_config: whatever it answers is printed only;
\* then the transaction is handed to send_and_confirm_transaction.
RegisterSimulate ==
    /\ gpc = "simulate"
    /\ \E sim_res \in {"ok", "ok_with_err", "err"} : TRUE
    /\ g_attempts' = Min(g_attempts + 1, MaxAttempts)
    /\ gpc' = "engine"
    /\ UNCHANGED <<notRegister, g_signer, g_account, g_had_account, g_height, g_tx,
                   g_last_valid, g_result>>

\* send_and_confirm_transaction answered Ok: the transaction was seen
\* Confirmed, so the proof account exists; break.
RegisterEngineOk ==
    /\ gpc = "engine"
    /\ g_result' = "ok"
    /\ g_account' = TRUE
    /\ gpc' = "returned"
    /\ UNCHANGED <<notRegister, g_signer, g_had_account, g_height, g_tx, g_last_valid,
                   g_attempts>>

\* It answered Err (the blockhash expired): the error is printed and the loop
\* repeats.  The transaction may have landed unseen.
RegisterEngineErr ==
    /\ gpc = "engine"
    /\ g_result' = "err"
    /\ g_account' \in {g_account, TRUE}
    /\ gpc' = "build"
    /\ UNCHANGED <<notRegister, g_signer, g_had_account, g_height, g_tx, g_last_valid,
                   g_attempts>>

\* It panicked (tx_result_receiver.recv().await.unwrap(), line 809): the
\* panic unwinds through register.
RegisterEnginePanic ==
    /\ gpc = "engine"
    /\ gpc' = "panicked"
    /\ UNCHANGED <<notRegister, g_signer, g_account, g_had_account, g_height, g_tx,
                   g_last_valid, g_attempts, g_result>>

\* The network produces a block.
RegisterHeightTick ==
    /\ g_height < MaxHeight
    /\ g_height' = g_height + 1
    /\ UNCHANGED <<notRegister, gpc, g_signer, g_account, g_had_account, g_tx,
                   g_last_valid, g_attempts, g_result>>

RegisterNext ==
    \/ RegisterAccountRead \/ RegisterAccountReadErr
    \/ RegisterBuild \/ RegisterBuildPanic
    \/ RegisterSimulate
    \/ RegisterEngineOk \/ RegisterEngineErr \/ RegisterEnginePanic
    \/ RegisterHeightTick

(***************************************************************************)
(* MinerV2::send_and_confirm, lines 974-1205: the helper that simulates,   *)
(* signs and submits one transaction.                                      *)
(***************************************************************************)
SIMULATION_RETRIES == 4

\* Err("Insufficient Sol balance"), Err("Sim failed"), Err("Blockheight
\* exceeded") and Ok((sig, tx_time_elapsed)).
HelperErr(text) == [ok |-> FALSE, err |-> text, sig |-> SignatureOf(NoTx)]
HelperOk(sig) == [ok |-> TRUE, err |-> "none", sig |-> sig]
HelperNoResult == HelperErr("none")

\* The instruction lists the callers pass: one instruction of the program.
HelperIxsSeen == {<<[kind |-> "claim"]>>, <<[kind |-> "initialize"]>>}

\* units_consumed values a simulation reports.
UnitsSeen == {0, CU_LIMIT_MINE}

\* sim_attempts.gt(&SIMULATION_RETRIES) with >= in its place: gives up one
\* failure earlier.
SimLimitReachedAtRetries(attempts) == attempts >= SIMULATION_RETRIES

\* sim_attempts.gt(&SIMULATION_RETRIES)
SimLimitReached(attempts) == attempts > SIMULATION_RETRIES

HelperIdle ==
    /\ scpc = "idle" /\ sc_signer = 1 /\ sc_ixs = <<>>
    /\ sc_dynamic_cus = FALSE /\ sc_priority_fee = 0
    /\ sc_tx = NoTx
    /\ sim_attempts = 0 /\ sc_sims = 0
    /\ sc_signed = FALSE
    /\ sc_landed = "none" /\ sc_chan = "none"
    /\ sc_ret = HelperNoResult

HelperInit ==
    /\ scpc = "balance"
    /\ sc_signer \in 1 .. NumSigners
    /\ sc_ixs \in HelperIxsSeen
    /\ sc_dynamic_cus \in BOOLEAN
    /\ sc_priority_fee \in {0, MaxFee}
    /\ sc_tx = NoTx
    /\ sim_attempts = 0 /\ sc_sims = 0
    /\ sc_signed = FALSE
    /\ sc_landed = "none" /\ sc_chan = "none"
    /\ sc_ret = HelperNoResult

\* get_balance(..).await.unwrap() answered Ok: a zero balance returns
\* Err("Insufficient Sol balance").
HelperBalance ==
    /\ scpc = "balance"
    /\ \E balance \in {0, 1} :
          IF balance <= 0
          THEN /\ sc_ret' = HelperErr("Insufficient Sol balance")
               /\ scpc' = "returned"
          ELSE /\ scpc' = "blockhash"
               /\ UNCHANGED sc_ret
    /\ UNCHANGED <<notHelper, sc_landed, sc_chan, sc_signer, sc_ixs, sc_dynamic_cus,
                   sc_priority_fee, sc_tx,
                   sim_attempts, sc_sims, sc_signed>>

\* get_balance answered Err: the unwrap panics.
HelperBalancePanic ==
    /\ scpc = "balance"
    /\ scpc' = "panicked"
    /\ UNCHANGED <<notHelper, sc_landed, sc_chan, sc_signer, sc_ixs, sc_dynamic_cus,
                   sc_priority_fee, sc_tx,
                   sim_attempts, sc_sims, sc_signed, sc_ret>>

\* The first blockhash fetch answered Ok (only its slot is used);
\* Transaction::new_with_payer(ixs, ..); sim_attempts = 0.
HelperBlockhash ==
    /\ scpc = "blockhash"
    /\ sc_tx' = NewWithPayer(sc_ixs, pubkey(sc_signer))
    /\ sim_attempts' = 0
    /\ scpc' = "simulate"
    /\ UNCHANGED <<notHelper, sc_landed, sc_chan, sc_signer, sc_ixs, sc_dynamic_cus,
                   sc_priority_fee, sc_sims,
                   sc_signed, sc_ret>>

\* Either blockhash fetch answered Err: the unwrap panics.
HelperBlockhashPanic ==
    /\ scpc \in {"blockhash", "sign"}
    /\ scpc' = "panicked"
    /\ UNCHANGED <<notHelper, sc_landed, sc_chan, sc_signer, sc_ixs, sc_dynamic_cus,
                   sc_priority_fee, sc_tx,
                   sim_attempts, sc_sims, sc_signed, sc_ret>>

\* One pass of 'simulate whose simulation failed: Ok with value.err, or Err.
\* sim_attempts += 1, then the test at the foot of the loop.
HelperSimFailed ==
    /\ scpc = "simulate"
    /\ sim_attempts' = sim_attempts + 1
    /\ sc_sims' = sc_sims + 1
    /\ IF SimLimitReached(sim_attempts')
       THEN /\ sc_ret' = HelperErr("Sim failed")
            /\ scpc' = "returned"
       ELSE UNCHANGED <<sc_ret, scpc>>
    /\ UNCHANGED <<notHelper, sc_landed, sc_chan, sc_signer, sc_ixs, sc_dynamic_cus,
                   sc_priority_fee, sc_tx,
                   sc_signed>>

\* One pass whose simulation answered Ok with units_consumed: with
\* dynamic_cus the transaction is rebuilt behind the two budget instructions;
\* break 'simulate.
HelperSimUnits ==
    /\ scpc = "simulate"
    /\ \E units_consumed \in UnitsSeen :
          sc_tx' = IF sc_dynamic_cus
                   THEN NewWithPayer(<<[kind |-> "cu_limit", units |-> units_consumed + 1000],
                                       CuPriceIx(sc_priority_fee)>> \o sc_ixs,
                                     pubkey(sc_signer))
                   ELSE sc_tx
    /\ sc_sims' = sc_sims + 1
    /\ scpc' = "sign"
    /\ UNCHANGED <<notHelper, sc_landed, sc_chan, sc_signer, sc_ixs, sc_dynamic_cus,
                   sc_priority_fee,
                   sim_attempts, sc_signed, sc_ret>>

\* One pass whose simulation answered Ok with neither value.err nor
\* units_consumed: no arm changes anything and the loop repeats.  The model
\* follows MaxSims simulations of a call before it stops following such
\* answers.
HelperSimEmpty ==
    /\ scpc = "simulate"
    /\ sc_sims < MaxSims
    /\ sc_sims' = sc_sims + 1
    /\ UNCHANGED <<notHelper, sc_landed, sc_chan, scpc, sc_signer, sc_ixs,
                   sc_dynamic_cus, sc_priority_fee,
                   sc_tx, sim_attempts, sc_signed, sc_ret>>

\* The second blockhash fetch answered Ok; tx.sign(&[&signer], hash); the two
\* channels and the confirmation and sender tasks are set up.
HelperSign ==
    /\ scpc = "sign"
    /\ \E height \in 0 .. MaxHeight :
          sc_tx' = Sign(sc_tx, sc_signer, BlockhashAt(height))
    /\ sc_signed' = TRUE
    /\ scpc' = "submit"
    /\ UNCHANGED <<notHelper, sc_landed, sc_chan, sc_signer, sc_ixs, sc_dynamic_cus,
                   sc_priority_fee,
                   sim_attempts, sc_sims, sc_ret>>

\* A submission of the sender task reached the cluster and the transaction
\* landed (Confirmed or Finalized), with status Ok or with status Err.
HelperTxLands ==
    /\ scpc = "submit"
    /\ sc_landed = "none"
    /\ sc_landed' \in {"ok", "err"}
    /\ UNCHANGED <<notHelper, scpc, sc_signer, sc_ixs, sc_dynamic_cus, sc_priority_fee,
                   sc_tx, sim_attempts, sc_sims, sc_signed, sc_chan, sc_ret>>

\* What the confirmation task sends for a status entry whose
\* confirmation_status is Confirmed or Finalized: Ok(sigs[0]), whatever the
\* entry's status field holds (lines 1123-1127).
HelperStatusAnswer(landed) == "ok"

\* One pass of the confirmation task that found the transaction landed:
\* tx_result_sender.send(Ok(sigs[0])); return.
HelperPollStatus ==
    /\ scpc = "submit"
    /\ sc_chan = "none"
    /\ sc_landed # "none"
    /\ sc_chan' = HelperStatusAnswer(sc_landed)
    /\ UNCHANGED <<notHelper, scpc, sc_signer, sc_ixs, sc_dynamic_cus, sc_priority_fee,
                   sc_tx, sim_attempts, sc_sims, sc_signed, sc_landed, sc_ret>>

\* One pass of the confirmation task that saw no landed status (none yet, or
\* get_signature_statuses answered Err) and a block height past
\* last_valid_blockheight: send(Err("Last valid blockheight exceeded!")).
HelperPollExpired ==
    /\ scpc = "submit"
    /\ sc_chan = "none"
    /\ sc_chan' = "expired"
    /\ UNCHANGED <<notHelper, scpc, sc_signer, sc_ixs, sc_dynamic_cus, sc_priority_fee,
                   sc_tx, sim_attempts, sc_sims, sc_signed, sc_landed, sc_ret>>

\* tx_result_receiver.recv().await.unwrap() received Ok(sig), returned as
\* Ok((sig, tx_time_elapsed)), or Err(_), which is mapped to
\* Err("Blockheight exceeded").
HelperResult ==
    /\ scpc = "submit"
    /\ sc_chan # "none"
    /\ sc_ret' = IF sc_chan = "ok"
                 THEN HelperOk(SignatureOf(sc_tx))
                 ELSE HelperErr("Blockheight exceeded")
    /\ scpc' = "returned"
    /\ UNCHANGED <<notHelper, sc_signer, sc_ixs, sc_dynamic_cus, sc_priority_fee, sc_tx,
                   sim_attempts, sc_sims, sc_signed, sc_landed, sc_chan>>

\* The confirmation task panicked on get_block_height(..).unwrap() (line
\* 1142), the sender is dropped, and the recv().await.unwrap() panics.
HelperResultPanic ==
    /\ scpc = "submit"
    /\ sc_chan = "none"
    /\ scpc' = "panicked"
    /\ UNCHANGED <<notHelper, sc_signer, sc_ixs, sc_dynamic_cus, sc_priority_fee, sc_tx,
                   sim_attempts, sc_sims, sc_signed, sc_landed, sc_chan, sc_ret>>

HelperNext ==
    \/ HelperBalance \/ HelperBalancePanic
    \/ HelperBlockhash \/ HelperBlockhashPanic
    \/ HelperSimFailed \/ HelperSimUnits \/ HelperSimEmpty
    \/ HelperSign
    \/ HelperTxLands \/ HelperPollStatus \/ HelperPollExpired
    \/ HelperResult \/ HelperResultPanic

(***************************************************************************)
(* Specifications                                                          *)
(***************************************************************************)
InitHash == HashInit /\ EngineIdle /\ PipeIdle /\ RegisterIdle /\ HelperIdle

SpecHash == InitHash /\ [][HashNext]_vars

\* The workers are operating-system threads and the caller joins them: each
\* keeps being scheduled.
HashFairness ==
    /\ \A i \in Workers :
          WF_vars(WorkerIterate(i) \/ WorkerOverflow(i) \/ WorkerWrite(i))
    /\ WF_vars(JoinAll)

FairHash == SpecHash /\ HashFairness

InitEngine == HashIdle /\ EngineInit /\ PipeIdle /\ RegisterIdle /\ HelperIdle

SpecEngine == InitEngine /\ [][EngineNext]_vars

\* The tasks of the race are scheduled fairly by the runtime; the network is
\* not: the height need not advance, the transaction need not land, and each
\* submission may be answered Ok or Err.
EngineFairness ==
    /\ WF_vars(PollerStep)
    /\ WF_vars(SenderStep)
    /\ WF_vars(SubmitCall)
    /\ WF_vars(SubmitOk \/ SubmitErr)
    /\ WF_vars(SubmitReport)
    /\ WF_vars(EngineReturn \/ EnginePanic)

FairEngine == SpecEngine /\ EngineFairness

InitPipe == HashIdle /\ EngineIdle /\ PipeInit /\ RegisterIdle /\ HelperIdle

SpecPipe == InitPipe /\ [][PipeNext]_vars

\* Bus selection, lines 259-337: the orchestrator has hashed a batch of one
\* wallet and read the treasury again; find_next_bus_id probes bus 0 while the
\* chain moves, then the transaction is built and pushed.
InitBus ==
    /\ HashIdle /\ EngineIdle /\ RegisterIdle /\ HelperIdle
    /\ batch_size = 1 /\ priority_fee = 0 /\ horizon = MaxBuilt
    /\ dir_left = <<>> /\ unreadable = {} /\ wallet_queue = <<>> /\ tx_queue = <<>>
    /\ tx_results_queue = <<>>
    /\ proof_chain = [kp \in Keypairs |-> kp % (MaxChallenge + 1)]
    /\ registered = Keypairs
    /\ bus_chain \in [readable : BOOLEAN, rewards : BusRewardsSeen]
    /\ opc = "bus"
    /\ \E kp \in Keypairs :
          /\ scanned = {to_base58_string(kp)}
          /\ wallet_batch = <<to_base58_string(kp)>>
          /\ o_proof = proof_chain[kp]
          /\ searches = {}
          /\ \E sol \in SolverOutcomes(kp, proof_chain[kp], TreasuryAccount.difficulty,
                                        PipeThreads) :
                keys_bytes_with_hashes =
                    <<[wallet |-> to_base58_string(kp), hash |-> sol.hash,
                       nonce |-> sol.nonce]>>
    /\ \E rate \in RewardRatesSeen :
          o_treasury = [difficulty |-> TreasuryAccount.difficulty, reward_rate |-> rate]
    /\ o_bus = [id |-> 0, rewards |-> 0]
    /\ o_passed_over = -1
    /\ consumed = 1
    /\ built = 0
    /\ DispatchInit
    /\ RouterInit

BusNext == OrchFindBus \/ OrchSend \/ BusChanges

SpecBus == InitBus /\ [][BusNext]_vars

(***************************************************************************)
(* The dispatcher on a chain whose block height advances, lines 346-424:   *)
(* the orchestrator has hashed a batch and selected a bus, and is about to *)
(* build and push the transaction.                                         *)
(***************************************************************************)
\* The chain produces a block.
ChainAdvances ==
    /\ epc = "idle"
    /\ blockheight < MaxHeight
    /\ blockheight' = blockheight + 1
    /\ UNCHANGED <<notEngine, engCore, tx_result_chan, sig_checks_chan, ppc, sigs, bpc, sub,
                   net_status, submitted, engHist>>

InitDispatch ==
    /\ HashIdle /\ EngineIdle /\ RegisterIdle /\ HelperIdle
    /\ priority_fee \in {0, MaxFee}
    /\ horizon = MaxBuilt
    /\ dir_left = <<>> /\ unreadable = {} /\ wallet_queue = <<>> /\ tx_queue = <<>>
    /\ tx_results_queue = <<>>
    /\ PipeChainInit
    /\ opc = "send"
    /\ \E kp1 \in Keypairs, kp2 \in Keypairs, n \in 1 .. 2 :
          LET kps == IF n = 1 THEN <<kp1>> ELSE <<kp1, kp2>>
              Sols(kp) == SolverOutcomes(kp, proof_chain[kp], TreasuryAccount.difficulty,
                                         PipeThreads)
          IN  /\ n = 2 => kp1 # kp2
              /\ n = 1 => kp2 = kp1
              /\ batch_size = n
              /\ consumed = n
              /\ scanned = {to_base58_string(kps[k]) : k \in 1 .. n}
              /\ wallet_batch = [k \in 1 .. n |-> to_base58_string(kps[k])]
              /\ o_proof = proof_chain[kps[n]]
              /\ \E sol1 \in Sols(kp1), sol2 \in Sols(kp2) :
                    LET sols == <<sol1, sol2>>
                    IN  keys_bytes_with_hashes =
                            [k \in 1 .. n |->
                                [wallet |-> to_base58_string(kps[k]),
                                 hash |-> sols[k].hash, nonce |-> sols[k].nonce]]
    /\ o_treasury = TreasuryAccount
    /\ searches = {}
    /\ o_bus = [id |-> 0, rewards |-> bus_chain.rewards]
    /\ o_passed_over = -1
    /\ built = 0
    /\ DispatchInit
    /\ RouterInit

DispatchNext ==
    \/ OrchSend \/ DispRecv \/ DispBlockhash \/ DispBlockhashPanic \/ DispEngine
    \/ DispEnginePanic \/ DispEmit \/ ChainAdvances

SpecDispatch == InitDispatch /\ [][DispatchNext]_vars

(***************************************************************************)
(* The closed loop of the three queues, lines 186-503, with a directory    *)
(* large enough to fill every queue and every task: batch size 1, every    *)
(* keypair file readable, every wallet registered, no panic, every         *)
(* transaction confirmed.                                                  *)
(***************************************************************************)
\* send_and_confirm_transaction returned Ok after MaxSecs seconds.
DispEngineConfirmed == DispEngine /\ d_engine'.ok /\ d_engine'.elapsed = MaxSecs

LoopWallets == 3 * QUEUE_CAPACITY + 3
LoopBuilt == 2 * QUEUE_CAPACITY + 3

InitLoop ==
    /\ HashIdle /\ EngineIdle /\ RegisterIdle /\ HelperIdle
    /\ batch_size = 1 /\ priority_fee = 0 /\ horizon = LoopBuilt
    /\ dir_left = [k \in 1 .. LoopWallets |-> k]
    /\ scanned = {} /\ unreadable = {}
    /\ wallet_queue = <<>> /\ tx_queue = <<>> /\ tx_results_queue = <<>>
    /\ proof_chain = [kp \in 1 .. LoopWallets |-> kp % (MaxChallenge + 1)]
    /\ registered = 1 .. LoopWallets
    /\ bus_chain = [readable |-> TRUE, rewards |-> TreasuryAccount.reward_rate * 20 + 1]
    /\ OrchInit
    /\ DispatchInit
    /\ RouterInit

LoopNext ==
    \/ ScanReadable
    \/ OrchRecv \/ OrchRegistered \/ OrchGetProof \/ OrchSpawn \/ OrchHash \/ OrchFindBus
    \/ OrchSend
    \/ DispRecv \/ DispBlockhash \/ DispEngineConfirmed \/ DispEmit
    \/ RouterRecv \/ RouterRequeue

SpecLoop == InitLoop /\ [][LoopNext]_vars

\* Every task is scheduled again and again and every call it awaits answers:
\* a task whose next step stays possible takes it.
OrchStep ==
    \/ OrchRecv \/ OrchRegistered \/ OrchGetProof \/ OrchSpawn \/ OrchHash \/ OrchFindBus
    \/ OrchSend
DispStep == DispRecv \/ DispBlockhash \/ DispEngineConfirmed \/ DispEmit
RouterStep == RouterRecv \/ RouterRequeue

LoopFairness ==
    /\ WF_vars(ScanReadable)
    /\ WF_vars(OrchStep)
    /\ WF_vars(DispStep)
    /\ WF_vars(RouterStep)

FairLoop == SpecLoop /\ LoopFairness

InitRegister == HashIdle /\ EngineIdle /\ PipeIdle /\ RegisterInit /\ HelperIdle

SpecRegister == InitRegister /\ [][RegisterNext]_vars

\* register runs on a task the runtime keeps scheduling, and each call it
\* awaits is answered; the network confirms a registration transaction if
\* register keeps submitting one.
RegisterFairness ==
    /\ WF_vars(RegisterAccountRead \/ RegisterAccountReadErr)
    /\ WF_vars(RegisterBuild \/ RegisterBuildPanic)
    /\ WF_vars(RegisterSimulate)
    /\ WF_vars(RegisterEngineOk \/ RegisterEngineErr \/ RegisterEnginePanic)
    /\ SF_vars(RegisterEngineOk)

FairRegister == SpecRegister /\ RegisterFairness

InitHelper == HashIdle /\ EngineIdle /\ PipeIdle /\ RegisterIdle /\ HelperInit

SpecHelper == InitHelper /\ [][HelperNext]_vars


(***************************************************************************)
(* C1.  The pair returned by find_next_hash_par is accepted by             *)
(* validate_hash: its hash is the digest of (challenge, public key, nonce) *)
(* and is at most the difficulty, for every thread count.                  *)
(***************************************************************************)
C1_ReturnedPairValid ==
    hpc = "returned" =>
        validate_hash(hret.hash, hash, pubkey(signer), hret.nonce, difficulty)

\* The same statement for a search that has at least one worker.
ReturnedPairValidWithWorkers ==
    (hpc = "returned" /\ threads >= 1) =>
        validate_hash(hret.hash, hash, pubkey(signer), hret.nonce, difficulty)

(***************************************************************************)
(* C2.  A call of send_and_confirm_transaction has at most one terminal    *)
(* outcome: at most one result is ever written to the result channel, and  *)
(* a call that returned returned the one result written, which is          *)
(* Confirmed (Ok with the signature), Failed or Expired.                   *)
(***************************************************************************)
C2_AtMostOneOutcome ==
    /\ results_written <= 1
    /\ Len(tx_result_chan) <= results_written
    /\ epc = "returned" =>
          /\ results_written = 1
          /\ tx_result_chan = <<>>
          /\ eres \in {Ok(TxSig), TransactionFailed, BlockheightExceeded}

C2_Witness == epc = "returned" /\ results_written = 1 /\ ppc = "done"

(***************************************************************************)
(* C3.  Every result of the race rests on what the poller observed: Ok on  *)
(* a Confirmed or Finalized status with an ok outcome, "Transaction        *)
(* Failed." on such a status with an error outcome, the expiry failure on  *)
(* a block height above the expiry height; a Processed or absent status    *)
(* produces no result.                                                     *)
(***************************************************************************)
ObservedLanded(ok) ==
    \E k \in 1 .. Len(last_statuses) :
        /\ last_statuses[k].level \in {"confirmed", "finalized"}
        /\ last_statuses[k].ok = ok

ResultJustified(r) ==
    /\ r \in {Ok(TxSig), TransactionFailed, BlockheightExceeded}
    /\ r.ok => ObservedLanded(TRUE)
    /\ r = TransactionFailed => ObservedLanded(FALSE)
    /\ r = BlockheightExceeded => last_height > last_valid_blockheight

C3_OutcomeMatchesObservation ==
    /\ \A k \in 1 .. Len(tx_result_chan) : ResultJustified(tx_result_chan[k])
    /\ epc = "returned" => ResultJustified(eres)
    /\ (~ObservedLanded(TRUE) /\ ~ObservedLanded(FALSE)
          /\ last_height <= last_valid_blockheight) => results_written = 0

C3_Witness ==
    /\ epc = "returned"
    /\ eres = TransactionFailed
    /\ last_statuses = <<[level |-> "finalized", ok |-> FALSE]>>

(***************************************************************************)
(* C4.  Once the block height exceeds the expiry height the call           *)
(* eventually returns, in every behaviour in which the poller's RPCs       *)
(* answer truthfully, whatever the answers to the submissions.             *)
(***************************************************************************)
C4_ExpiryEventuallyReported ==
    ([]~rpc_flaky) =>
        ((epc = "racing" /\ blockheight > last_valid_blockheight) ~> (epc = "returned"))

(***************************************************************************)
(* C5.  Once the poller holds the acknowledged signature and the network   *)
(* reports the transaction Confirmed or Finalized with an ok outcome, the   *)
(* call eventually returns Ok with that signature, in every behaviour in   *)
(* which the poller's RPCs answer truthfully and the block height stays    *)
(* within the expiry height.                                               *)
(***************************************************************************)
C5_ConfirmedEventuallySuccess ==
    ([](~rpc_flaky /\ blockheight <= last_valid_blockheight)) =>
        ((/\ epc = "racing"
          /\ sigs = <<TxSig>>
          /\ net_status.level \in {"confirmed", "finalized"}
          /\ net_status.ok)
            ~> (epc = "returned" /\ eres = Ok(TxSig)))

(***************************************************************************)
(* C6.  After send_and_confirm_transaction has returned its outcome, no    *)
(* submission of the transaction is issued.                                *)
(***************************************************************************)
C6_NoSubmissionAfterOutcome == ~late_send

(***************************************************************************)
(* C7.  A submission answered with an error writes no result, ends         *)
(* neither the call nor the poller, and leaves the sender task in its      *)
(* loop; the sender task runs as long as the call is racing.               *)
(***************************************************************************)
SubmissionFailedStep == sub'.sending < sub.sending /\ sub'.acked = sub.acked

C7_SubmitErrorKeepsRacing ==
    /\ [](epc = "racing" => bpc \in {"spawn", "sleep"})
    /\ [][SubmissionFailedStep =>
            /\ tx_result_chan' = tx_result_chan
            /\ results_written' = results_written
            /\ epc' = epc /\ eres' = eres
            /\ ppc' = ppc /\ bpc' = bpc]_vars

C7_Witness ==
    /\ n_failed = 2
    /\ epc = "racing"
    /\ results_written = 0
    /\ sub.sending > 0

\* C8: for every configured batch size B with 1 <= B <= 5 and every stream of
\* n wallet messages, the orchestrator builds exactly floor(n / B)
\* transactions, each from exactly B wallets, and the remaining n mod B
\* wallets stay in the pending batch, neither dropped nor sent.  Here n is
\* `consumed`; while the orchestrator works on a full batch, that batch holds
\* the last B of the n wallets and its transaction is not counted yet.
C8_BatchesOfExactlyB ==
    batch_size \in 1 .. 5 =>
        LET B == batch_size
        IN  /\ opc = "recv" =>
                  /\ built = consumed \div B
                  /\ Len(wallet_batch) = consumed % B
            /\ opc # "recv" =>
                  /\ built + 1 = consumed \div B
                  /\ consumed % B = 0
                  /\ Len(wallet_batch) = B
            /\ \A k \in 1 .. Len(tx_queue) :
                  /\ Len(tx_queue[k].wallets) = B
                  /\ Len(DecodeTx(tx_queue[k].encoded_unsigned_tx).ixs) = B + 2
                  /\ \A i \in 1 .. Len(wallet_batch), j \in 1 .. B :
                        opc = "recv" => wallet_batch[i] # tx_queue[k].wallets[j]
            /\ dpc \in {"blockhash", "engine", "emit"} => Len(d_mssg.wallets) = B

\* B = 3 and n = 7: two transactions built, one wallet pending.
C8_Witness ==
    /\ batch_size = 3
    /\ consumed = 7
    /\ built = 2
    /\ opc = "recv"
    /\ Len(wallet_batch) = 1

\* C9: for every configured batch size, the pending batch never holds more
\* wallets than min(batch size, 5), and every TransactionQueueMessage carries
\* at most 5 wallets.
C9_PendingBatchWithinTarget ==
    /\ Len(wallet_batch) <= Min(batch_size, 5)
    /\ \A k \in 1 .. Len(tx_queue) : Len(tx_queue[k].wallets) <= 5

\* The instruction layout C10 describes, for a message of n wallets: the
\* compute-unit limit CU_LIMIT_MINE * n, the compute-unit price priority_fee,
\* then for the i-th wallet a mine instruction with that wallet's public key,
\* a (hash, nonce) that solves that wallet's challenge, and the one bus.
TqmLayout(m, n) ==
    LET ixs == DecodeTx(m.encoded_unsigned_tx).ixs
    IN  /\ Len(m.wallets) = n
        /\ Len(ixs) = 2 + n
        /\ ixs[1] = [kind |-> "cu_limit", units |-> CU_LIMIT_MINE * n]
        /\ ixs[2] = [kind |-> "cu_price", price |-> priority_fee]
        /\ \A i \in 1 .. n :
              LET kp == from_base58_string(m.wallets[i])
                  ix == ixs[i + 2]
              IN  /\ ix.kind = "mine"
                  /\ ix.signer = pubkey(kp)
                  /\ ix.hash = hashv(proof_chain[kp], pubkey(kp), ix.nonce)
                  /\ HashLe(ix.hash, TreasuryAccount.difficulty)
                  /\ ix.bus = ixs[3].bus
                  /\ \E id \in 0 .. 7 : ix.bus = BusAddress(id)

C11_OneResultPerMessage ==
    /\ d_consumed - d_emitted = IF dpc \in {"blockhash", "engine", "emit"} THEN 1 ELSE 0
    /\ dpc = "emit" =>
          /\ d_result.wallets = d_mssg.wallets
          /\ d_result.hash_time_elapsed = d_mssg.hash_time_elapsed

\* C12: the dispatcher emits failed = false with the confirmed signature and
\* the engine's elapsed time exactly when send_and_confirm_transaction
\* returned success; on any engine failure, Expired or Failed alike, it emits
\* failed = true, sig = "failed" and tx_time_elapsed = 0.
C12_ResultReflectsEngine ==
    /\ dpc = "emit" =>
          IF d_engine.ok
          THEN /\ ~d_result.failed
               /\ d_result.sig = sig_to_string(d_engine.val)
               /\ d_engine.val = SignatureOf(d_tx)
               /\ d_result.tx_time_elapsed = d_engine.elapsed
          ELSE /\ d_result.failed
               /\ d_result.sig = FailedText
               /\ d_result.tx_time_elapsed = 0
    /\ \A k \in 1 .. Len(tx_results_queue) :
          LET r == tx_results_queue[k]
          IN  /\ r.failed <=> r.sig = FailedText
              /\ r.failed => r.tx_time_elapsed = 0

\* A failed result waits in the queue while the dispatcher is about to send a
\* success that took MaxSecs seconds.
C12_Witness ==
    /\ dpc = "emit"
    /\ d_engine.ok
    /\ d_engine.elapsed = MaxSecs
    /\ tx_results_queue # <<>>
    /\ tx_results_queue[1].failed


\* ---------------------------------------------------------------------------
\* C13  Every wallet named in a result the router consumed is put back on the
\*      wallet queue, once per occurrence and as the same identity string:
\*      each step in which the router finishes with the next wallet of the
\*      result appends exactly that wallet to the wallet queue.
\*      wallet_queue.send(w) answers Err once the orchestrator task is gone
\*      (lines 465-472 only log it), so the wallet is dropped instead.
C13_EveryWalletRequeued ==
    [][(rtpc = "requeue" /\ r_left' = Tail(r_left))
          => wallet_queue' = Append(wallet_queue, [wallet |-> Head(r_left)])]_vars


\* ---------------------------------------------------------------------------
\* C14  Wallet conservation: every wallet the directory scan enqueued is held
\*      in exactly one place among the wallet queue, the orchestrator's
\*      batch, a message of the transaction queue, the dispatcher, a message
\*      of the result queue and the router.  A task that panicked holds
\*      nothing: its locals are dropped when it unwinds.
Occurrences(wallets, w) == Cardinality({k \in DOMAIN wallets : wallets[k] = w})

RECURSIVE OccurrencesInMessages(_, _)
OccurrencesInMessages(queue, w) ==
    IF queue = <<>> THEN 0
    ELSE Occurrences(Head(queue).wallets, w) + OccurrencesInMessages(Tail(queue), w)

Held(w) ==
      Cardinality({k \in DOMAIN wallet_queue : wallet_queue[k].wallet = w})
    + (IF opc = "panicked" THEN 0 ELSE Occurrences(wallet_batch, w))
    + OccurrencesInMessages(tx_queue, w)
    + (IF dpc = "panicked" THEN 0 ELSE Occurrences(d_mssg.wallets, w))
    + OccurrencesInMessages(tx_results_queue, w)
    + Occurrences(r_left, w)

C14_WalletConservation == \A w \in scanned : Held(w) = 1


\* ---------------------------------------------------------------------------
\* C15  No failure of a network call terminates a pipeline stage: the
\*      orchestrator and the dispatcher (and, inside it, the send-and-confirm
\*      engine) are running or have returned a value, never crashed.
\*      The blockhash fetches of register (lines 843-846) and of the
\*      dispatcher (lines 358-361) are unwrapped, and so is the engine's
\*      get_block_height (line 764), whose panic surfaces in the dispatcher
\*      through the result channel's unwrap (line 809).
C15_NoStageCrashes == opc # "panicked" /\ dpc # "panicked"


\* ---------------------------------------------------------------------------
\* C16  Bus admission gate.  As stated: find_next_bus_id returns only a bus
\*      it read successfully with rewards > reward_rate * 20, it probes bus 0,
\*      the orchestrator never pushes a transaction while bus 0 is unreadable
\*      or holds rewards <= reward_rate * 20, and every mine instruction names
\*      bus address 0.  Bus 0 is read before the transaction is built; what
\*      it holds when the push happens is not what the probe saw.
FindBusReturns == opc = "bus" /\ opc' = "send"

Pushes == tx_queue' # tx_queue

ReturnedBusWasAdmitted ==
    FindBusReturns =>
        /\ bus_chain.readable
        /\ bus_chain.rewards > Min(o_treasury.reward_rate * 20, AMOUNT_MAX)
        /\ o_bus' = [id |-> 0, rewards |-> bus_chain.rewards]

MineIxsNameBusZero(tx) ==
    \A k \in 3 .. Len(tx.ixs) : tx.ixs[k].kind = "mine" /\ tx.ixs[k].bus = BusAddress(0)

C16_NoPushWhileBusBelowGate ==
    [][/\ ReturnedBusWasAdmitted
       /\ Pushes =>
            /\ bus_chain.readable
            /\ bus_chain.rewards > Min(o_treasury.reward_rate * 20, AMOUNT_MAX)
            /\ MineIxsNameBusZero(DecodeTx(tx_queue'[Len(tx_queue')].encoded_unsigned_tx))
      ]_vars

\* C16  Amended: find_next_bus_id returns only the bus 0 it has just read
\*      successfully with rewards > reward_rate * 20 (saturating); the
\*      orchestrator pushes a transaction only after such a probe, whatever
\*      bus 0 holds by then, and every mine instruction names bus address 0.
C16_PushOnlyAfterAdmittingProbe ==
    [][/\ ReturnedBusWasAdmitted
       /\ Pushes =>
            /\ o_bus.id = 0
            /\ o_bus.rewards > Min(o_treasury.reward_rate * 20, AMOUNT_MAX)
            /\ MineIxsNameBusZero(DecodeTx(tx_queue'[Len(tx_queue')].encoded_unsigned_tx))
      ]_vars

\* A transaction was pushed after a probe under a saturated threshold's
\* neighbour rate, and bus 0 has fallen to the threshold or below since.
C16_Witness ==
    /\ tx_queue # <<>>
    /\ o_treasury.reward_rate = AMOUNT_MAX \div 20
    /\ bus_chain.rewards <= o_treasury.reward_rate * 20


\* ---------------------------------------------------------------------------
\* C17  For a keypair whose proof account exists on chain when register is
\*      called, register builds no registration transaction and hands none
\*      to send_and_confirm_transaction, also when the account read fails.
\*      get_account(..).is_ok() (line 833) takes a failed read for a missing
\*      account, and register goes on to its loop.
C17_NoRegistrationWhenAccountExists ==
    g_had_account => (g_tx = NoTx /\ g_attempts = 0)

\* ---------------------------------------------------------------------------
\* C18  For a keypair with no proof account, register, scheduled fairly and
\*      with a network that confirms a registration, eventually returns.
\*      It returns only from the Ok arm (line 901) and starts a new pass
\*      with a new blockhash after each Err, without a bound; but an Err
\*      from the blockhash fetch (unwrap, line 846) or a panic of the engine
\*      ends the task, and register never returns.
C18_RegisterEventuallyReturns == (gpc = "check" /\ ~g_had_account) ~> (gpc = "returned")


\* ---------------------------------------------------------------------------
\* C19  As stated: send_and_confirm returns 'Sim failed' once 4 simulation
\*      attempts have failed, has made no more than 4 simulations then, and
\*      has submitted nothing.  The test is sim_attempts > SIMULATION_RETRIES,
\*      so the fourth failure is followed by a fifth simulation.
SimFailedReturned == scpc = "returned" /\ sc_ret = HelperErr("Sim failed")

C19_SimFailedAfterFourAttempts ==
    /\ scpc = "simulate" => sim_attempts < 4
    /\ SimFailedReturned => (sim_attempts = 4 /\ sc_sims <= 4 /\ ~sc_signed)

\* C19  Amended: send_and_confirm returns 'Sim failed' once 5 simulations
\*      have failed, the first attempt and SIMULATION_RETRIES retries; it has
\*      then made at least 5 simulations, exactly 5 of them failed, the rest
\*      answered without an error and without consumed units, and it has
\*      signed and submitted nothing.
C19_SimFailedAfterFiveAttempts ==
    /\ scpc = "simulate" => sim_attempts < 5
    /\ SimFailedReturned =>
          /\ sim_attempts = 5
          /\ sc_sims >= 5
          /\ ~sc_signed
          /\ sc_tx.signatures = <<>>
    /\ sc_signed => sim_attempts < 5

\* 'Sim failed' was returned after more simulations than failures.
C19_Witness == SimFailedReturned /\ sc_sims > sim_attempts


\* ---------------------------------------------------------------------------
\* C20  Backpressure: none of the three queues ever holds more messages than
\*      its capacity, and a producer whose queue is full, with the receiving
\*      task alive, stays where it is and keeps its message until there is
\*      room: the directory scan (it enqueues no entry meanwhile) and the
\*      router before the wallet queue,
\*      the orchestrator before the transaction queue, the dispatcher before
\*      the result queue.  When a producer does complete a send to a live
\*      receiver, the message is on the queue.
IsFull(queue) == Len(queue) = QUEUE_CAPACITY

WithinCapacity ==
    /\ Len(wallet_queue) <= QUEUE_CAPACITY
    /\ Len(tx_queue) <= QUEUE_CAPACITY
    /\ Len(tx_results_queue) <= QUEUE_CAPACITY

C20_FullQueueHoldsProducer ==
    [][/\ WithinCapacity /\ WithinCapacity'
       /\ (dir_left # <<>> /\ opc # "panicked" /\ IsFull(wallet_queue))
             => scanned' = scanned
       /\ scanned' # scanned
             => wallet_queue' =
                   Append(wallet_queue, [wallet |-> to_base58_string(Head(dir_left))])
       /\ (rtpc = "requeue" /\ opc # "panicked" /\ IsFull(wallet_queue))
             => (rtpc' = rtpc /\ r_left' = r_left)
       /\ (opc = "send" /\ dpc # "panicked" /\ IsFull(tx_queue))
             => (opc' = opc /\ wallet_batch' = wallet_batch)
       /\ (dpc = "emit" /\ IsFull(tx_results_queue))
             => (dpc' = dpc /\ d_result' = d_result)
       /\ (opc = "send" /\ opc' = "recv" /\ dpc # "panicked")
             => (Len(tx_queue') = Len(tx_queue) + 1
                 /\ tx_queue'[Len(tx_queue')].wallets = wallet_batch)
       /\ (dpc = "emit" /\ dpc' = "recv")
             => tx_results_queue' = Append(tx_results_queue, d_result)
       /\ (rtpc = "requeue" /\ r_left' # r_left /\ opc # "panicked")
             => wallet_queue' = Append(wallet_queue, [wallet |-> Head(r_left)])
      ]_vars

\* The orchestrator holds a built transaction before a full transaction queue
\* whose receiver, the dispatcher, is alive.
C20_Witness == opc = "send" /\ dpc # "panicked" /\ IsFull(tx_queue)


\* ---------------------------------------------------------------------------
\* C21  Directory scan: when the scan is over, every entry whose keypair file
\*      was not found unreadable has yielded its WalletQueueMessage, one per
\*      entry, and an unreadable entry did not keep the later ones out.
\*      An Err of next_entry() ends the loop like the end of the directory
\*      (lines 482, 497-499), and a send to a dead orchestrator is only
\*      logged (lines 487-489): entries that follow yield nothing.
C21_EveryReadableEntryEnqueued ==
    dir_left = <<>> =>
        \A kp \in Keypairs \ unreadable : to_base58_string(kp) \in scanned


\* ---------------------------------------------------------------------------
\* C22  With a single wallet and batch size 1, every transaction the pipeline
\*      produces names that one wallet and contains exactly one mine
\*      instruction, at most one transaction is in flight (queued, with the
\*      dispatcher, or as a result queued or with the router), and while the
\*      orchestrator holds the wallet, waiting or building, none is: the next
\*      transaction is built only after the result of the previous one was
\*      routed and the wallet re-queued.
SingleWallet == batch_size = 1 /\ dir_left = <<>> /\ Cardinality(scanned) = 1

InFlight ==
      Len(tx_queue)
    + (IF dpc \in {"blockhash", "engine", "emit"} THEN 1 ELSE 0)
    + Len(tx_results_queue)
    + (IF rtpc = "requeue" THEN 1 ELSE 0)

MineIxCount(tx) == Cardinality({k \in DOMAIN tx.ixs : tx.ixs[k].kind = "mine"})

OneWalletOneMineIx(mssg) ==
    /\ Len(mssg.wallets) = 1
    /\ mssg.wallets[1] \in scanned
    /\ MineIxCount(DecodeTx(mssg.encoded_unsigned_tx)) = 1

C22_OneTransactionPerCycle ==
    SingleWallet =>
        /\ InFlight <= 1
        /\ (wallet_queue # <<>> \/ opc \notin {"recv", "panicked"}) => InFlight = 0
        /\ Len(wallet_queue) <= 1
        /\ \A k \in DOMAIN tx_queue : OneWalletOneMineIx(tx_queue[k])
        /\ dpc \in {"blockhash", "engine", "emit"} => OneWalletOneMineIx(d_mssg)

\* The single wallet is in its second cycle: its second transaction is queued.
C22_Witness == SingleWallet /\ built = 2 /\ tx_queue # <<>>


\* ---------------------------------------------------------------------------
\* C23  As stated: when the difficulty is satisfied at the first nonce of
\*      some worker, no worker scans its whole range.  Nothing stops another
\*      worker before the flag is set: it can reach the first nonce of the
\*      next partition, or the end of the nonce space, while the worker with
\*      the solution has not run its first iteration yet.
SolvedAtStart(i) ==
    i < threads /\ HashLe(hashv(hash, pubkey(signer), wn[i]), difficulty)

ScannedWholeRange(i) ==
    /\ i < threads
    /\ IF i + 1 < threads
       THEN wnonce[i] >= StartNonce(threads, i + 1)
       ELSE wpc[i] = "panicked" \/ wnonce[i] < wn[i]

C23_NoWorkerScansWholeRange ==
    (\E j \in Workers : SolvedAtStart(j)) =>
        \A i \in Workers : ~ScannedWholeRange(i)

\* C23  Amended: when the difficulty is satisfied at the first nonce of some
\*      worker, then under fair scheduling every worker terminates and
\*      find_next_hash_par returns, or panics with a worker whose nonce
\*      overflowed.  That worker never goes past its first nonce; every
\*      other worker begins at most FlagCheckEvery iterations after the flag
\*      was set, stopping at its next flag check, on its own solution or on
\*      the overflow.  How far a worker scans before the flag is set is not
\*      bounded.
C23_TerminatesWhenSolvedAtStart ==
    /\ (hpc = "running" /\ \E j \in Workers : SolvedAtStart(j))
          ~> (hpc \in {"returned", "panicked"})
    /\ [](\A j \in Workers : SolvedAtStart(j) => wnonce[j] = wn[j])
    /\ [](\A i \in Workers : wsteps[i] <= FlagCheckEvery)
    /\ [](hpc = "returned" => \A i \in Workers : wpc[i] \in {"done", "unused"})

\* find_next_hash_par has returned; one worker solved at its first nonce and
\* another one was stopped by the flag, away from its first nonce.
C23_Witness ==
    /\ hpc = "returned"
    /\ \E j, i \in Workers :
          /\ SolvedAtStart(j)
          /\ i # j /\ i < threads
          /\ wnonce[i] # wn[i]
          /\ wnonce[i] # hret.nonce


\* ---------------------------------------------------------------------------
\* C24  find_next_hash_par returns only after every worker has terminated,
\*      and the pair it returns is a pair one worker stored in the solution
\*      cell in one write: a hash together with the nonce it was computed
\*      from.  With threads = 0 no worker exists and the pair returned is
\*      the initial content of the cell, which no worker stored.
C24_ReturnsOneWorkersPair ==
    hpc = "returned" =>
        /\ \A i \in Workers : wpc[i] \in {"done", "unused"}
        /\ hret \in written
        /\ hret.hash = hashv(hash, pubkey(signer), hret.nonce)


\* ---------------------------------------------------------------------------
\* C25  Once found_solution is set it stays set, and every worker still in
\*      its loop terminates after at most one flag period of further hash
\*      iterations (FlagCheckEvery here, 10,000 in the program): it tests the
\*      flag whenever its nonce is a multiple of the period.
AllWorkersStopped == \A i \in Workers : wpc[i] \notin {"loop", "write"}

C25_FlagStopsWorkersWithinPeriod ==
    /\ [][found_solution => found_solution']_vars
    /\ [](\A i \in Workers : wsteps[i] <= FlagCheckEvery)
    /\ found_solution ~> AllWorkersStopped

\* A worker was stopped by the flag after a full period of further
\* iterations: it stored nothing.
C25_Witness ==
    \E i \in Workers :
        /\ wpc[i] = "done"
        /\ wsteps[i] = FlagCheckEvery
        /\ wnonce[i] % FlagCheckEvery = 0
        /\ written # {} /\ FoundPair(i) \notin written


\* ---------------------------------------------------------------------------
\* C26  With T >= 1 threads, worker i starts at nonce floor(u64::MAX / T) * i,
\*      a value within 64 bits (the saturation never takes effect) and
\*      different for different workers, and it moves from a nonce to the
\*      next one only: n, n+1, n+2, ... (after u64::MAX, where the addition
\*      wraps in a build without overflow checks, comes 0).
Spawned == {i \in Workers : i < threads}

C26_PartitionStartsAndIncrement ==
    /\ \A i \in Spawned : wnonce[i] = wn[i]
    /\ [](\A i \in Spawned :
             /\ wn[i] = (U64_MAX \div threads) * i
             /\ wn[i] <= U64_MAX
             /\ \A j \in Spawned : j # i => wn[j] # wn[i])
    /\ [][\A i \in Spawned :
             wnonce'[i] # wnonce[i] => wnonce'[i] = (wnonce[i] + 1) % (U64_MAX + 1)]_vars

\* Two workers run and the second one has gone two nonces past its start.
C26_Witness ==
    /\ Cardinality(Spawned) >= 2
    /\ \E i \in Spawned : i > 0 /\ wnonce[i] = wn[i] + 2


\* ---------------------------------------------------------------------------
\* C27  The orchestrator takes every batch through Collecting, Hashing,
\*      BusSelecting, Building and Submitted in that order: bus selection
\*      starts only when every wallet of the batch has a solution, with the
\*      treasury read after the last search; the transaction is pushed only
\*      after a bus was selected; the batch is emptied only by the step that
\*      pushed its transaction, which leaves the orchestrator Collecting.
Stage(pc) ==
    CASE pc = "recv" -> "Collecting"
      [] pc \in {"register", "reg_loop", "proof", "hash", "join"} -> "Hashing"
      [] pc = "bus" -> "BusSelecting"
      [] pc = "send" -> "Building"
      [] OTHER -> "Crashed"

StageOrder ==
    {<<"Collecting", "Hashing">>, <<"Hashing", "BusSelecting">>,
     <<"BusSelecting", "Building">>, <<"Building", "Collecting">>,
     <<"Hashing", "Crashed">>}

EveryWalletHasSolution(batch, kbwh) ==
    /\ Len(kbwh) = Len(batch)
    /\ \A k \in 1 .. Len(batch) : kbwh[k].wallet = batch[k]

PushedTransactionOf(batch) ==
    /\ tx_queue' # tx_queue
    /\ Len(tx_queue') = Len(tx_queue) + 1
    /\ tx_queue'[Len(tx_queue')].wallets = batch

OrderedStages ==
    Stage(opc') # Stage(opc) => <<Stage(opc), Stage(opc')>> \in StageOrder

BusAfterSolutions ==
    (Stage(opc') = "BusSelecting" /\ Stage(opc) # "BusSelecting")
        => /\ wallet_batch' = wallet_batch
           /\ EveryWalletHasSolution(wallet_batch, keys_bytes_with_hashes')
           /\ o_treasury' = TreasuryAccount

PushAfterBus ==
    (Len(tx_queue') > Len(tx_queue))
        => /\ Stage(opc) = "Building"
           /\ PushedTransactionOf(wallet_batch)
           /\ DecodeTx(tx_queue'[Len(tx_queue')].encoded_unsigned_tx).ixs
                 = BuildIxs(keys_bytes_with_hashes, priority_fee, o_bus)

BatchEmptiedByPush ==
    (wallet_batch # <<>> /\ wallet_batch' = <<>>)
        => /\ PushedTransactionOf(wallet_batch)
           /\ Stage(opc') = "Collecting"

C27_OrchestratorStateOrder ==
    [][OrderedStages /\ BusAfterSolutions /\ PushAfterBus /\ BatchEmptiedByPush]_vars

\* The same order holds in every step taken while the dispatcher is alive.
C27_OrderWhileDispatcherRuns ==
    [][dpc # "panicked"
          => OrderedStages /\ BusAfterSolutions /\ PushAfterBus /\ BatchEmptiedByPush]_vars

C27_OrderApartFromEmptying ==
    [][OrderedStages /\ BusAfterSolutions /\ PushAfterBus]_vars


\* ---------------------------------------------------------------------------
\* C28  The orchestrator hashes the wallets of a batch one after another: at
\*      most one search it spawned is running at any time, that search is
\*      for the first wallet of the batch without a solution, and the
\*      orchestrator takes no message off the wallet queue while it is
\*      hashing or building a batch.
OrchDequeues == consumed' # consumed \/ Len(wallet_queue') < Len(wallet_queue)

C28_SequentialHashing ==
    /\ [](/\ Cardinality(searches) <= 1
          /\ searches # {} =>
                /\ opc = "join"
                /\ \A s \in searches : s.wallet = CurrentWallet)
    /\ [][OrchDequeues => Stage(opc) = "Collecting" /\ searches = {}]_vars

\* The search of the second wallet of a batch is running, the first wallet
\* has its solution, and a wallet message waits in the queue.
C28_Witness ==
    /\ Cardinality(searches) = 1
    /\ Len(keys_bytes_with_hashes) >= 1
    /\ wallet_queue # <<>>


\* ---------------------------------------------------------------------------
\* C29  The challenge a search runs on is the proof hash read in the same
\*      cycle: the read follows the wallet's registration step and precedes
\*      the spawn of its search, the value is not touched in between, and it
\*      is the wallet's proof hash as it is on chain, never one read in an
\*      earlier cycle.
ProofReadAfterRegistration ==
    (opc' = "proof" /\ opc # "proof")
        => /\ opc \in {"register", "reg_loop"}
           /\ CurrentKeypair \in registered'

SearchAfterProofRead ==
    /\ (opc' = "hash" /\ opc # "hash")
          => /\ opc = "proof"
             /\ o_proof' = proof_chain[CurrentKeypair]
    /\ opc = "hash" => o_proof' = o_proof
    /\ searches' # searches /\ searches' \ searches # {}
          => /\ opc = "hash"
             /\ searches' \ searches =
                   {[wallet |-> CurrentWallet, hash |-> o_proof,
                     difficulty |-> o_treasury.difficulty, threads |-> PipeThreads]}

C29_ChallengeReadInSameCycle ==
    /\ [](\A s \in searches : s.hash = proof_chain[from_base58_string(s.wallet)])
    /\ [][ProofReadAfterRegistration /\ SearchAfterProofRead]_vars

\* A wallet that has mined before is searched again, in a later cycle, on a
\* challenge that differs from the one its proof account started with.
C29_Witness ==
    /\ built >= 1
    /\ \E s \in searches :
          /\ s.hash # from_base58_string(s.wallet) % (MaxChallenge + 1)
          /\ s.hash = proof_chain[from_base58_string(s.wallet)]


\* ---------------------------------------------------------------------------
\* C30  The dispatcher asks for the blockhash and its expiry height only once
\*      it holds a dequeued message; it signs the decoded transaction with
\*      every wallet of the message on that blockhash, and the height it
\*      hands to send_and_confirm_transaction is the one that came with that
\*      blockhash.  No transaction in the queue carries a signature.
QueuedUnsigned ==
    \A k \in 1 .. Len(tx_queue) :
        DecodeTx(tx_queue[k].encoded_unsigned_tx).signatures = <<>>

ExpiryOfBlockhash ==
    dpc = "engine" =>
        /\ Len(d_tx.signatures) = Len(d_mssg.wallets)
        /\ \A k \in 1 .. Len(d_mssg.wallets) :
              d_tx.signatures[k] = pubkey(from_base58_string(d_mssg.wallets[k]))
        /\ \E h \in 0 .. MaxHeight :
              d_tx.blockhash = 70 + h /\ d_last_valid = h + 1

FetchAfterDequeue ==
    /\ (dpc' = "blockhash" /\ dpc # "blockhash")
          => /\ tx_queue # <<>>
             /\ d_mssg' = Head(tx_queue)
             /\ tx_queue' = Tail(tx_queue)
             /\ d_tx' = NoTx
    /\ (d_tx' # d_tx /\ d_tx' # NoTx)
          => /\ dpc = "blockhash"
             /\ d_mssg' = d_mssg
             /\ d_tx'.ixs = DecodeTx(d_mssg.encoded_unsigned_tx).ixs
             /\ d_tx'.payer = DecodeTx(d_mssg.encoded_unsigned_tx).payer
             /\ d_tx'.blockhash = 70 + blockheight
             /\ d_last_valid' = blockheight + 1
    /\ dpc = "engine" => d_tx' = d_tx /\ d_last_valid' = d_last_valid

C30_SignedAfterDequeueWithFreshBlockhash ==
    /\ [](QueuedUnsigned /\ ExpiryOfBlockhash)
    /\ [][FetchAfterDequeue]_vars

\* A transaction of two wallets is with the engine, signed on a blockhash
\* fetched after the chain had advanced, and the chain has advanced again.
C30_Witness ==
    /\ dpc = "engine"
    /\ Len(d_mssg.wallets) = 2
    /\ d_tx.blockhash > 70
    /\ blockheight + 1 > d_last_valid


\* ---------------------------------------------------------------------------
\* C31  In an iteration of the confirmation task the statuses are looked at
\*      before the block height: an answer with a Confirmed or Finalized
\*      entry ends the task with the result that entry stands for, Ok or
\*      "Transaction Failed.", also when the block height is already beyond
\*      the last valid one; "Last valid blockheight exceeded!" is sent only
\*      after an answer without such an entry.
StatusAnswerEndsTask ==
    (ppc = "statuses" /\ ppc' # ppc /\ FirstLanded(last_statuses') # 0)
        => /\ ppc' = "done"
           /\ tx_result_chan' =
                 Append(tx_result_chan,
                        IF last_statuses'[FirstLanded(last_statuses')].ok
                        THEN Ok(sigs[1]) ELSE TransactionFailed)

ExpiredOnlyWithoutLanded ==
    (eres = BlockheightExceeded
        \/ \E k \in 1 .. Len(tx_result_chan) : tx_result_chan[k] = BlockheightExceeded)
        => FirstLanded(last_statuses) = 0

C31_StatusBeforeExpiry ==
    /\ []ExpiredOnlyWithoutLanded
    /\ [][StatusAnswerEndsTask]_vars

\* The task ended on a landed status, its result is still in the channel, and
\* the chain is beyond the last valid height.
C31_Witness ==
    /\ ppc = "done"
    /\ FirstLanded(last_statuses) # 0
    /\ blockheight > last_valid_blockheight
    /\ epc = "racing"
    /\ tx_result_chan # <<>>
    /\ tx_result_chan[1] # BlockheightExceeded


\* ---------------------------------------------------------------------------
\* C32  The router's tx_times, hash_times and total_times have the same
\*      length, which is the number of successful results it has received;
\*      every total is the sum of the send time and the hash time at the
\*      same index; a failed result changes none of the three, a successful
\*      one appends its own times to each.
SuccessfulQueued ==
    Cardinality({k \in 1 .. Len(tx_results_queue) : ~tx_results_queue[k].failed})

statLists == <<tx_times, hash_times, total_times>>

StatsFollowResult ==
    (Len(tx_results_queue') < Len(tx_results_queue))
        => LET mssg == Head(tx_results_queue)
           IN  IF mssg.failed
               THEN statLists' = statLists
               ELSE /\ tx_times' = Append(tx_times, mssg.tx_time_elapsed)
                    /\ hash_times' = Append(hash_times, mssg.hash_time_elapsed)
                    /\ total_times' =
                          Append(total_times, mssg.tx_time_elapsed + mssg.hash_time_elapsed)

C32_StatisticsConsistent ==
    /\ [](/\ Len(tx_times) = Len(hash_times)
          /\ Len(hash_times) = Len(total_times)
          /\ Len(tx_times) = d_ok_emitted - SuccessfulQueued
          /\ \A k \in 1 .. Len(total_times) : total_times[k] = tx_times[k] + hash_times[k])
    /\ [][StatsFollowResult /\ (statLists' # statLists => rtpc = "recv")]_vars

\* The router has received a failed and a successful result, the successful
\* one with a send time that is not zero.
C32_Witness ==
    /\ Len(total_times) = 1
    /\ d_emitted = 2 /\ d_ok_emitted = 1
    /\ tx_results_queue = <<>>
    /\ tx_times[1] > 0 /\ hash_times[1] > 0


\* ---------------------------------------------------------------------------
\* C33  The closed loop never reaches a state where the orchestrator waits
\*      for room in a full transaction queue, the dispatcher waits for room
\*      in a full result queue, and the router waits for room in a full
\*      wallet queue, all at once.
OrchBlocked == opc = "send" /\ dpc # "panicked" /\ IsFull(tx_queue)
DispBlocked == dpc = "emit" /\ IsFull(tx_results_queue)
RouterBlocked == rtpc = "requeue" /\ opc # "panicked" /\ IsFull(wallet_queue)

C33_NoCircularWait == ~(OrchBlocked /\ DispBlocked /\ RouterBlocked)

\* In that state no step of the loop is possible, and the directory scan can
\* only wait as well.
C33_CircularWaitIsFinal ==
    [][(OrchBlocked /\ DispBlocked /\ RouterBlocked) => FALSE]_vars


\* ---------------------------------------------------------------------------
\* C34  With at least as many wallets as the batch size, fair scheduling and
\*      calls that answer, every wallet on the wallet queue is eventually
\*      named in a message on the transaction queue, and the wallets of every
\*      message on the transaction queue are eventually back on the wallet
\*      queue (for as long as the orchestrator is followed).
LoopWalletStrings == {to_base58_string(kp) : kp \in 1 .. LoopWallets}

OnWalletQueue(w) == \E k \in 1 .. Len(wallet_queue) : wallet_queue[k].wallet = w

OnTxQueue(w) ==
    \E k \in 1 .. Len(tx_queue) :
        \E j \in 1 .. Len(tx_queue[k].wallets) : tx_queue[k].wallets[j] = w

HorizonReached == built = horizon

C34_PipelineProgress ==
    \A w \in LoopWalletStrings :
        /\ [](OnWalletQueue(w) => <>(OnTxQueue(w) \/ HorizonReached))
        /\ [](OnTxQueue(w) => <>(OnWalletQueue(w) \/ HorizonReached))

\* Progress fails only by the circular wait of the three tasks.
C34_ProgressUnlessCircularWait ==
    \A w \in LoopWalletStrings :
        /\ [](OnWalletQueue(w) =>
                <>(OnTxQueue(w) \/ HorizonReached
                      \/ (OrchBlocked /\ DispBlocked /\ RouterBlocked)))
        /\ [](OnTxQueue(w) =>
                <>(OnWalletQueue(w) \/ HorizonReached
                      \/ (OrchBlocked /\ DispBlocked /\ RouterBlocked)))

\* ---------------------------------------------------------------------------
\* C35  send_and_confirm never returns Ok for a transaction that landed with
\*      an error status: when the transaction landed with status Err, the
\*      call's answer is a failure.
HelperReturned == scpc = "returned"

C35_RejectedNeverReportedOk ==
    (HelperReturned /\ sc_landed = "err") => ~sc_ret.ok

\* Ok is returned only for a transaction that landed, with either status.
C35_OkOnlyForLanded ==
    (HelperReturned /\ sc_ret.ok) =>
        /\ sc_landed \in {"ok", "err"}
        /\ sc_ret = HelperOk(SignatureOf(sc_tx))

\* ---------------------------------------------------------------------------
\* C36  The simulate loop of send_and_confirm ends after a bounded number of
\*      simulation calls: a call makes at most SIMULATION_RETRIES + 1
\*      simulations, the number after which it has either left the loop for
\*      signing or returned 'Sim failed'.
C36_SimulationsBounded == sc_sims <= SIMULATION_RETRIES + 1

\* The argument for that bound: every pass of the loop either leaves the loop
\* or counts one more failed attempt.
SimulationPass == scpc = "simulate" /\ sc_sims' # sc_sims

C36_EveryPassProgresses ==
    [][SimulationPass => (scpc' # "simulate" \/ sim_attempts' = sim_attempts + 1)]_vars

\* The failed attempts are bounded; the simulations are not: a call makes as
\* many as the model follows.
C36_FailedAttemptsBounded == sim_attempts <= SIMULATION_RETRIES + 1

C36_SimulationsReachModelBound == sc_sims < MaxSims

\* ---------------------------------------------------------------------------
\* C37  The threshold of find_next_bus_id saturates and never wraps: a bus is
\*      returned only if its rewards exceed the product reward_rate * 20 taken
\*      without overflow, and with a reward rate of at least
\*      ceil(AMOUNT_MAX / 20) no bus is returned, the selection staying in its
\*      loop.
SaturatingRate == (AMOUNT_MAX + 19) \div 20

SelectionStaysInLoop == o_treasury.reward_rate >= SaturatingRate => opc = "bus"

ReturnedBusExceedsProduct ==
    FindBusReturns =>
        /\ bus_chain.rewards > o_treasury.reward_rate * 20
        /\ o_treasury.reward_rate < SaturatingRate

C37_ThresholdSaturates ==
    []SelectionStaysInLoop /\ [][ReturnedBusExceedsProduct]_vars

\* Under the first reward rate whose twentyfold saturates, the selection read
\* a bus 0 that held the largest amount, did not return it and probes again.
C37_Witness ==
    /\ opc = "bus"
    /\ o_treasury.reward_rate = SaturatingRate
    /\ o_treasury.reward_rate * 20 > AMOUNT_MAX
    /\ o_passed_over = AMOUNT_MAX
    /\ bus_chain.readable

\* ---------------------------------------------------------------------------
\* C38  The orchestrator never writes to the wallet queue: a message is added
\*      to it only by the directory scan or by the router, a step of the
\*      orchestrator leaves it alone or takes its head, and the wallets of a
\*      batch the orchestrator stopped working on are not on the wallet queue.
WalletQueueGains == Len(wallet_queue') > Len(wallet_queue)

ScanAdvances == dir_left' # dir_left

RouterAdvances == r_left' # r_left

OrchestratorActs == orchVars' # orchVars

OnlyScanAndRouterProduce ==
    WalletQueueGains =>
        /\ ScanAdvances \/ RouterAdvances
        /\ ~OrchestratorActs

OrchestratorOnlyConsumes ==
    OrchestratorActs =>
        \/ wallet_queue' = wallet_queue
        \/ /\ wallet_queue # <<>>
           /\ wallet_queue' = Tail(wallet_queue)

StrandedBatchNotRequeued ==
    opc = "panicked" =>
        \A k \in 1 .. Len(wallet_batch) : ~OnWalletQueue(wallet_batch[k])

C38_OrchestratorNeverProduces ==
    /\ []StrandedBatchNotRequeued
    /\ [][OnlyScanAndRouterProduce /\ OrchestratorOnlyConsumes]_vars

\* The orchestrator stopped with a wallet in its batch after the scan ended:
\* the wallet is in no queue and nothing puts it back.
C38_Witness ==
    /\ opc = "panicked"
    /\ wallet_batch # <<>>
    /\ dir_left = <<>>
    /\ rtpc = "recv"
    /\ \A k \in 1 .. Len(wallet_batch) :
          /\ ~OnWalletQueue(wallet_batch[k])
          /\ ~OnTxQueue(wallet_batch[k])

\* ---------------------------------------------------------------------------
\* C39  The poller's list of signatures never holds a signature twice; it
\*      changes only when the poller takes a message at the head of an
\*      iteration, by at most one signature added at its end; and a success
\*      the poller sends carries the first signature it received.
NoDuplicateSigs ==
    \A i, j \in 1 .. Len(sigs) : i # j => sigs[i] # sigs[j]

SigsGrowByOnePerIteration ==
    sigs' # sigs =>
        /\ ppc = "recv" /\ ppc' = "statuses"
        /\ sig_checks_chan # <<>>
        /\ sigs' = Append(sigs, Head(sig_checks_chan))

SuccessCarriesFirstSig ==
    (/\ Len(tx_result_chan') > Len(tx_result_chan)
     /\ tx_result_chan'[Len(tx_result_chan')].ok) =>
        /\ sigs # <<>>
        /\ tx_result_chan' = Append(tx_result_chan, Ok(sigs[1]))

C39_SignatureListDistinctAndOrdered ==
    /\ []NoDuplicateSigs
    /\ [][SigsGrowByOnePerIteration /\ SuccessCarriesFirstSig]_vars

\* The poller is in a later iteration: it asked for the status of its one
\* signature before, took another message of the sender since, which held
\* the same signature, and asks again with the list unchanged.
C39_Witness ==
    /\ ppc = "statuses"
    /\ Len(last_statuses) = 1
    /\ sigs = <<TxSig>>
    /\ epc = "racing"

=============================================================================
